---- MODULE Spec2Model ----
(***************************************************************************)
(* Model of src/Backup/Backup.py: the planner (_CreateWork) with its name  *)
(* mappers, and the offsite snapshot store (Offsite, CommitOffsite,        *)
(* OffsiteRestore) together with Mirror.                                   *)
(*                                                                         *)
(* Paths are sequences of one-character strings.  Modification times are   *)
(* integers counting microseconds (1 unit = 0.000001 s).                   *)
(***************************************************************************)
EXTENDS Integers, Sequences, FiniteSets, TLC

VARIABLES
    \* ---- planner (_CreateWork called on its own) ----
    plat,           \* "posix" or "nt": which os.path the interpreter uses
    destDir,        \* optional_local_destination_dir (NoDir for Offsite)
    srcList,        \* source_file_info, in scanner order
    dstList,        \* dest_file_info, in scanner / manifest order
    simple,         \* simple_compare
    work,           \* <<what _CreateWork returned>>, <<>> before the call
    \* ---- snapshot store ----
    source,         \* the source tree: name index -> version index, 0 = absent
    live,           \* <backup_name>.backup
    pending,        \* <backup_name>.backup.pending
    suffixCopy,     \* <backup_name>.backup.<suffix>
    outDir,         \* output_dir of the last Offsite run, as an index into chain
    chain,          \* the snapshot directories, in name order
    pc,             \* position of the running operation ("idle" between operations)
    run,            \* locals of the running Offsite call
    lastResult,     \* what the operation that just finished returned
    lastOp,         \* the operation that just finished (None once something else happened)
    lastDisplay,    \* whether that operation was called with display_only
    restored,       \* files materialized by the OffsiteRestore that just finished
    mirrored,       \* the destination tree as the Mirror that just finished left it
    nRuns           \* number of Offsite runs started

planVars  == <<plat, destDir, srcList, dstList, simple, work>>
storeVars == <<source, live, pending, suffixCopy, outDir, chain, pc, run,
               lastResult, lastOp, lastDisplay, restored, mirrored, nRuns>>
vars      == <<planVars, storeVars>>

\* None for a name or an order-less value; NoDir is None for a directory
None == "None"
NoDir == <<>>

(***************************************************************************)
(* Bounds                                                                  *)
(***************************************************************************)
MaxSrc  == 2        \* files in source_file_info given to the planner
MaxDst  == 2        \* files in dest_file_info given to the planner
MaxRuns == 2        \* Offsite runs in one behaviour

(***************************************************************************)
(* os.path and FileSystem helpers on character sequences                   *)
(***************************************************************************)
Sep(p) == IF p = "nt" THEN "\\" ELSE "/"

StartsWith(s, pre) ==
    /\ Len(pre) <= Len(s)
    /\ SubSeq(s, 1, Len(pre)) = pre

\* s[n:]
DropN(s, n) == IF n >= Len(s) THEN <<>> ELSE SubSeq(s, n + 1, Len(s))

\* str.replace(a, b) for one-character a and b
Replace(s, a, b) == [i \in 1..Len(s) |-> IF s[i] = a THEN b ELSE s[i]]

\* os.path.splitdrive
splitdrive(p, s) ==
    IF p = "nt" /\ Len(s) >= 2 /\ s[2] = ":"
    THEN <<SubSeq(s, 1, 2), DropN(s, 2)>>
    ELSE <<<<>>, s>>

\* FileSystem.RemoveInitialSep
RemoveInitialSep(p, s) ==
    IF Len(s) >= 1 /\ s[1] = Sep(p) THEN DropN(s, 1) ELSE s

\* FileSystem.AddTrailingSep
AddTrailingSep(p, s) ==
    IF Len(s) >= 1 /\ s[Len(s)] = Sep(p) THEN s ELSE s \o <<Sep(p)>>

\* one step of os.path.join: acc is <<drive, path>> and part the next argument
JoinStep(p, acc, part) ==
    LET pd  == splitdrive(p, part)[1]
        pp  == splitdrive(p, part)[2]
        rd  == acc[1]
        rp  == acc[2]
    IN  IF Len(pp) >= 1 /\ pp[1] = Sep(p)
        THEN <<IF pd # <<>> \/ rd = <<>> THEN pd ELSE rd, pp>>
        ELSE IF pd # <<>> /\ pd # rd
        THEN <<pd, pp>>
        ELSE <<rd,
               (IF rp # <<>> /\ rp[Len(rp)] # Sep(p) THEN rp \o <<Sep(p)>> ELSE rp)
                   \o pp>>

RECURSIVE JoinFold(_, _, _)
JoinFold(p, acc, parts) ==
    IF parts = <<>> THEN acc
    ELSE JoinFold(p, JoinStep(p, acc, Head(parts)), Tail(parts))

\* os.path.join(first, *rest).  ntpath.join puts no separator after a bare
\* drive ("C:" joined with "r" is "C:r"); posixpath.join has no drives.
join(p, first, rest) ==
    LET r == JoinFold(p, splitdrive(p, first), rest)
    IN  r[1] \o r[2]

\* index of the last separator of s, 0 when there is none
RECURSIVE LastSep(_, _, _)
LastSep(p, s, i) ==
    IF i = 0 THEN 0
    ELSE IF s[i] = Sep(p) THEN i ELSE LastSep(p, s, i - 1)

\* s.rstrip(sep)
RECURSIVE RStripSep(_, _)
RStripSep(p, s) ==
    IF s # <<>> /\ s[Len(s)] = Sep(p) THEN RStripSep(p, SubSeq(s, 1, Len(s) - 1))
    ELSE s

\* os.path.dirname
dirname(p, s) ==
    LET d    == splitdrive(p, s)[1]
        rest == splitdrive(p, s)[2]
        head == SubSeq(rest, 1, LastSep(p, rest, Len(rest)))
        h2   == IF RStripSep(p, head) = <<>> THEN head ELSE RStripSep(p, head)
    IN  d \o h2

\* str.split(os.path.sep)
RECURSIVE SplitSep(_, _, _)
SplitSep(p, s, cur) ==
    IF s = <<>> THEN <<cur>>
    ELSE IF Head(s) = Sep(p) THEN <<cur>> \o SplitSep(p, Tail(s), <<>>)
    ELSE SplitSep(p, Tail(s), Append(cur, Head(s)))

\* os.path.sep.join(parts)
RECURSIVE SepJoin(_, _)
SepJoin(p, parts) ==
    IF parts = <<>> THEN <<>>
    ELSE IF Len(parts) = 1 THEN parts[1]
    ELSE parts[1] \o <<Sep(p)>> \o SepJoin(p, Tail(parts))

\* length of the longest common prefix of two sequences
RECURSIVE CommonLen(_, _)
CommonLen(a, b) ==
    IF a = <<>> \/ b = <<>> \/ Head(a) # Head(b) THEN 0
    ELSE 1 + CommonLen(Tail(a), Tail(b))

\* FileSystem.GetCommonPath(*names): the leading path components that all
\* names share; the empty string when there are no names
RECURSIVE CommonParts(_, _)
CommonParts(p, names) ==
    IF Len(names) = 1 THEN SplitSep(p, names[1], <<>>)
    ELSE LET a == SplitSep(p, names[1], <<>>)
             b == CommonParts(p, Tail(names))
         IN  SubSeq(a, 1, CommonLen(a, b))

GetCommonPath(p, names) ==
    IF names = <<>> THEN <<>> ELSE SepJoin(p, CommonParts(p, names))

(***************************************************************************)
(* _FileInfo                                                               *)
(***************************************************************************)
FileInfo(name, size, mtime, hash) ==
    [Name |-> name, Size |-> size, LastModified |-> mtime, Hash |-> hash]

\* 0.00001 seconds, in microseconds
Tolerance == 10

Abs(x) == IF x < 0 THEN -x ELSE x

AreEqualStrict(a, b, compare_hashes) ==
    /\ a.Size = b.Size
    /\ Abs(a.LastModified - b.LastModified) < Tolerance
    /\ (~compare_hashes \/ a.Hash = b.Hash)

\* _FileInfo.AreEqual
AreEqual(a, b, compare_hashes) ==
    /\ a.Size = b.Size
    /\ Abs(a.LastModified - b.LastModified) <= Tolerance
    /\ (~compare_hashes \/ a.Hash = b.Hash)

(***************************************************************************)
(* _CreateWork                                                             *)
(***************************************************************************)
\* { fi.Name : fi for fi in infos } as the sequence of its values: one item
\* per name, at the position of the name's first occurrence, holding the
\* value of its last occurrence
RECURSIVE LastOfName(_, _, _)
LastOfName(infos, name, i) ==
    IF infos[i].Name = name THEN infos[i] ELSE LastOfName(infos, name, i - 1)

RECURSIVE DictValues(_, _)
DictValues(infos, i) ==
    IF i > Len(infos) THEN <<>>
    ELSE IF \E j \in 1..(i - 1) : infos[j].Name = infos[i].Name
    THEN DictValues(infos, i + 1)
    ELSE <<LastOfName(infos, infos[i].Name, Len(infos))>> \o DictValues(infos, i + 1)

\* the list a dict would be if it kept every element given to it
NameList(infos) == infos

NameMap(infos) == DictValues(infos, 1)

Names(infos) == {infos[i].Name : i \in 1..Len(infos)}

NameSeq(infos) == [i \in 1..Len(infos) |-> infos[i].Name]

\* dest_map[name]
Lookup(infos, name) == LastOfName(infos, name, Len(infos))

\* the value a failed assert leaves in place of a path
AssertionError == <<"AssertionError">>

\* IsMultiDrive: some source file is on another drive than the first one
IsMultiDrive(p, sfis) ==
    \E i \in 1..Len(sfis) :
        splitdrive(p, sfis[i].Name)[1] # splitdrive(p, sfis[1].Name)[1]

\* the mapper _CreateWork builds: which pair of ToDest/FromDest closures, the
\* common_path they close over, and whether `assert common_path` passed
MapperOf(p, dest, sfis) ==
    IF dest = NoDir THEN [kind |-> "identity", common |-> <<>>, ok |-> TRUE]
    ELSE IF IsMultiDrive(p, sfis) THEN [kind |-> "multi", common |-> <<>>, ok |-> TRUE]
    ELSE LET cp == IF Len(sfis) = 1 THEN dirname(p, sfis[1].Name)
                   ELSE GetCommonPath(p, NameSeq(NameMap(sfis)))
         IN  [kind   |-> "single",
              common |-> AddTrailingSep(p, cp),
              ok     |-> (Len(sfis) = 1 \/ cp # <<>>)]

FromDestMulti(p, dest, filename) ==
    IF ~StartsWith(filename, dest) THEN AssertionError
    ELSE LET f     == RemoveInitialSep(p, DropN(filename, Len(dest)))
             parts == SplitSep(p, f, <<>>)
         IN  join(p, Replace(parts[1], "_", ":"), Tail(parts))

ToDest(p, m, dest, filename) ==
    CASE m.kind = "identity" -> filename
      [] m.kind = "multi" ->
            LET sd == splitdrive(p, filename)
            IN  join(p, dest, <<Replace(sd[1], ":", "_"), RemoveInitialSep(p, sd[2])>>)
      [] m.kind = "single" ->
            IF ~StartsWith(filename, m.common) THEN AssertionError
            ELSE join(p, dest, <<DropN(filename, Len(m.common))>>)

FromDest(p, m, dest, filename) ==
    CASE m.kind = "identity" -> filename
      [] m.kind = "multi" -> FromDestMulti(p, dest, filename)
      [] m.kind = "single" ->
            IF ~StartsWith(filename, dest) THEN AssertionError
            ELSE join(p, m.common, <<RemoveInitialSep(p, DropN(filename, Len(dest)))>>)

EmptyWork ==
    [failed |-> FALSE, entries |-> <<>>, removes |-> <<>>,
     added |-> 0, modified |-> 0, removed |-> 0, matched |-> 0]

FailedWork == [EmptyWork EXCEPT !.failed = TRUE]

\* the loop over source_map.  An entry of `results` is kept as a record: op is
\* "add" when the value is the destination filename (dest) and "modify" when
\* it is the destination _FileInfo (dfi, whose name is dest)
RECURSIVE SourceLoop(_, _, _, _, _, _, _)
SourceLoop(p, m, dest, smap, dfis, simple_compare, acc) ==
    IF smap = <<>> \/ acc.failed THEN acc
    ELSE LET sfi == Head(smap)
             dest_filename == ToDest(p, m, dest, sfi.Name)
             next ==
                IF dest_filename = AssertionError THEN FailedWork
                ELSE IF dest_filename \notin Names(dfis)
                THEN [acc EXCEPT !.entries = Append(@, [op |-> "add", sfi |-> sfi,
                                                        dest |-> dest_filename,
                                                        dfi |-> <<>>]),
                                 !.added = @ + 1]
                ELSE IF AreEqual(sfi, Lookup(dfis, dest_filename), ~simple_compare)
                THEN [acc EXCEPT !.matched = @ + 1]
                ELSE [acc EXCEPT !.entries = Append(@, [op |-> "modify", sfi |-> sfi,
                                                        dest |-> dest_filename,
                                                        dfi |-> <<Lookup(dfis, dest_filename)>>]),
                                 !.modified = @ + 1]
         IN  SourceLoop(p, m, dest, Tail(smap), dfis, simple_compare, next)

\* the loop over dest_map
RECURSIVE DestLoop(_, _, _, _, _, _)
DestLoop(p, m, dest, dmap, sfis, acc) ==
    IF dmap = <<>> \/ acc.failed THEN acc
    ELSE LET dfi == Head(dmap)
             source_filename == FromDest(p, m, dest, dfi.Name)
             next ==
                IF source_filename = AssertionError THEN FailedWork
                ELSE IF source_filename \notin Names(sfis)
                THEN [acc EXCEPT !.removes = Append(@, dfi), !.removed = @ + 1]
                ELSE acc
         IN  DestLoop(p, m, dest, Tail(dmap), sfis, next)

CreateWork(p, sfis, dfis, dest, simple_compare) ==
    LET m == MapperOf(p, dest, sfis)
    IN  IF ~m.ok THEN FailedWork
        ELSE DestLoop(p, m, dest, NameMap(dfis), sfis,
                      SourceLoop(p, m, dest, NameMap(sfis), dfis, simple_compare, EmptyWork))

(***************************************************************************)
(* The planner on its own: inputs are built file by file, then _CreateWork *)
(* is called once.                                                         *)
(***************************************************************************)
Plats == {"posix", "nt"}

\* the destination directory given to Mirror
DestRoot(p) ==
    IF p = "nt" THEN <<"E", ":", "\\", "d">> ELSE <<"/", "d">>

\* source files the scanner can deliver
SrcNames(p) ==
    IF p = "nt"
    THEN << <<"C", ":", "\\", "r", "\\", "x">>,
            <<"C", ":", "\\", "r", "\\", "y">>,
            <<"D", ":", "\\", "r", "\\", "x">> >>
    ELSE << <<"/", "r", "/", "x">>,
            <<"/", "r", "/", "y">>,
            <<"/", "r", "/", "b", "/", "x">> >>

\* files of the other side: found under the destination directory (Mirror),
\* or recorded in the historical manifest (Offsite, dest is None)
DstNames(p, dest) ==
    IF dest = NoDir
    THEN SrcNames(p) \o (IF p = "nt" THEN << <<"C", ":", "\\", "r", "\\", "z">> >>
                         ELSE << <<"/", "r", "/", "z">> >>)
    ELSE IF p = "nt"
    THEN << <<"E", ":", "\\", "d", "\\", "x">>,
            <<"E", ":", "\\", "d", "\\", "y">>,
            <<"E", ":", "\\", "d", "\\", "C", "_", "\\", "r", "\\", "x">>,
            <<"E", ":", "\\", "d", "\\", "D", "_", "\\", "r", "\\", "x">> >>
    ELSE << <<"/", "d", "/", "x">>,
            <<"/", "d", "/", "y">>,
            <<"/", "d", "/", "b", "/", "x">>,
            <<"/", "d", "/", "z">> >>

\* (size, mtime, hash) of the files: mtimes 10 and 100 microseconds apart
SrcStamps == { <<1, 100, "h1">>, <<1, 110, "h1">> }
DstStamps == { <<1, 100, "h1">>, <<1, 10, "h1">>, <<1, 210, "h1">>,
               <<2, 100, "h1">>, <<1, 100, "h2">> }

IndexOf(seq, x) == CHOOSE k \in 1..Len(seq) : seq[k] = x

\* a manifest file that does not exist / cannot be parsed / holds records
Absent      == [st |-> "absent", items |-> <<>>]
Corrupt     == [st |-> "corrupt", items |-> <<>>]
Manifest(items) == [st |-> "ok", items |-> items]

\* a manifest file that parses but whose last record lacks a field
Short(items) == [st |-> "short", items |-> items]

NoRun ==
    [force |-> FALSE, auto_commit |-> FALSE, compress |-> FALSE, out |-> 0,
     sfis |-> <<>>, hashes |-> {}, data |-> <<>>, to_copy |-> <<>>, left |-> {},
     failed |-> FALSE, suffix |-> FALSE, op |-> None]

StoreIdle ==
    /\ source = <<>>
    /\ live = Absent
    /\ pending = Absent
    /\ suffixCopy = Absent
    /\ outDir = 0
    /\ chain = <<>>
    /\ pc = "idle"
    /\ run = NoRun
    /\ lastResult = "0"
    /\ lastOp = None
    /\ lastDisplay = FALSE
    /\ restored = {}
    /\ mirrored = {}
    /\ nRuns = 0

InitPlan ==
    /\ plat \in Plats
    /\ destDir \in {NoDir, DestRoot(plat)}
    /\ srcList = <<>>
    /\ dstList = <<>>
    /\ simple = FALSE
    /\ work = <<>>
    /\ StoreIdle

\* the scanner delivers one more source file
AddSource ==
    /\ work = <<>>
    /\ Len(srcList) < MaxSrc
    /\ \E k \in 1..Len(SrcNames(plat)), st \in SrcStamps :
        /\ \A i \in 1..Len(srcList) : IndexOf(SrcNames(plat), srcList[i].Name) < k
        /\ srcList' = Append(srcList, FileInfo(SrcNames(plat)[k], st[1], st[2], st[3]))
    /\ UNCHANGED <<plat, destDir, dstList, simple, work, storeVars>>

\* one more file on the other side
AddDest ==
    /\ work = <<>>
    /\ Len(dstList) < MaxDst
    /\ \E k \in 1..Len(DstNames(plat, destDir)), st \in DstStamps :
        /\ \A i \in 1..Len(dstList) :
                IndexOf(DstNames(plat, destDir), dstList[i].Name) < k
        /\ dstList' = Append(dstList, FileInfo(DstNames(plat, destDir)[k], st[1], st[2], st[3]))
    /\ UNCHANGED <<plat, destDir, srcList, simple, work, storeVars>>

\* work = _CreateWork(source_file_info, dest_file_info, destination, simple_compare, ...)
CallCreateWork ==
    /\ work = <<>>
    /\ \E sc \in BOOLEAN :
        /\ simple' = sc
        /\ work' = <<CreateWork(plat, srcList, dstList, destDir, sc)>>
    /\ UNCHANGED <<plat, destDir, srcList, dstList, storeVars>>

NextPlan == AddSource \/ AddDest \/ CallCreateWork

SpecPlan == InitPlan /\ [][NextPlan]_vars

\* the mapper the finished call used
PlanMapper == MapperOf(plat, destDir, srcList)

PlanDone == work # <<>>

PlanResult == work[1]

(***************************************************************************)
(* Properties of the planner                                               *)
(***************************************************************************)
PlanToDest(name)   == ToDest(plat, PlanMapper, destDir, name)
PlanFromDest(name) == FromDest(plat, PlanMapper, destDir, name)

SrcSet == {srcList[i] : i \in 1..Len(srcList)}
DstSet == {dstList[i] : i \in 1..Len(dstList)}

SeqToSet(seq) == {seq[i] : i \in 1..Len(seq)}

\* the destination file a source file is compared with, if there is one
HasDest(s) == \E d \in DstSet : d.Name = PlanToDest(s.Name)
DestOf(s)  == CHOOSE d \in DstSet : d.Name = PlanToDest(s.Name)

\* equality of two fingerprints as section 4.4 states it
SameFingerprint(s, d) ==
    /\ s.Size = d.Size
    /\ s.LastModified - d.LastModified <= 10
    /\ d.LastModified - s.LastModified <= 10
    /\ (simple \/ s.Hash = d.Hash)

\* C4: name-map round trip.  After _CreateWork has built its mapper, every
\* source path p satisfies FromDest(ToDest(p)) = p.
C4_NameMapRoundTrip ==
    (PlanDone /\ ~PlanResult.failed) =>
        \A s \in SrcSet : PlanFromDest(PlanToDest(s.Name)) = s.Name

\* C5: plan classification.  The plan holds Add(s, ToDest(s)) exactly for
\* the sources whose mapped path is not a destination file, Modify(s, d)
\* exactly for the sources whose destination file d has another fingerprint,
\* nothing for the equal ones (counted as matched), and Remove(d) exactly for
\* the destination files d whose FromDest(d) is not a source file.
C5_PlanClassification ==
    PlanDone =>
        /\ SeqToSet(PlanResult.entries) =
              {[op |-> "add", sfi |-> s, dest |-> PlanToDest(s.Name), dfi |-> <<>>] :
                    s \in {t \in SrcSet : ~HasDest(t)}}
              \cup
              {[op |-> "modify", sfi |-> s, dest |-> DestOf(s).Name, dfi |-> <<DestOf(s)>>] :
                    s \in {t \in SrcSet : HasDest(t) /\ ~SameFingerprint(t, DestOf(t))}}
        /\ Len(PlanResult.entries) = Cardinality(SeqToSet(PlanResult.entries))
        /\ PlanResult.matched =
              Cardinality({t \in SrcSet : HasDest(t) /\ SameFingerprint(t, DestOf(t))})
        /\ SeqToSet(PlanResult.removes) =
              {d \in DstSet : \A t \in SrcSet : t.Name # PlanFromDest(d.Name)}
        /\ Len(PlanResult.removes) = Cardinality(SeqToSet(PlanResult.removes))

\* the destination files that are the mapped path of no source file
OnlyInDest == {d \in DstSet : \A t \in SrcSet : PlanToDest(t.Name) # d.Name}

\* C6: plan completeness.  added + modified + removed + matched is the
\* number of source files plus the number of destination files without a
\* source counterpart, and a destination file that a source file was matched
\* with or modifies is not removed as well.
C6_PlanCompleteness ==
    (PlanDone /\ ~PlanResult.failed) =>
        /\ PlanResult.added + PlanResult.modified + PlanResult.removed + PlanResult.matched
              = Cardinality(SrcSet) + Cardinality(OnlyInDest)
        /\ PlanResult.added = Cardinality({e \in SeqToSet(PlanResult.entries) : e.op = "add"})
        /\ PlanResult.modified =
              Cardinality({e \in SeqToSet(PlanResult.entries) : e.op = "modify"})
        /\ PlanResult.removed = Len(PlanResult.removes)
        /\ \A d \in SeqToSet(PlanResult.removes) : d \in OnlyInDest

\* the source file s is reported as modified
IsModified(s) ==
    \E i \in 1..Len(PlanResult.entries) :
        PlanResult.entries[i].op = "modify" /\ PlanResult.entries[i].sfi = s

IsListed(s) ==
    \E i \in 1..Len(PlanResult.entries) : PlanResult.entries[i].sfi = s

MtimeDelta(s, d) == Abs(s.LastModified - d.LastModified)

\* C7: fingerprint equality tolerance.  A source file and its destination
\* file with the same size (and the same hash, unless simple_compare) are
\* matched when their mtimes differ by at most 10 microseconds (0.00001 s);
\* they give a Modify when the mtimes differ by 100 microseconds (0.0001 s)
\* or when the sizes differ.
C7_EqualityTolerance ==
    (PlanDone /\ ~PlanResult.failed) =>
        \A s \in SrcSet :
            HasDest(s) =>
                /\ (/\ s.Size = DestOf(s).Size
                    /\ (simple \/ s.Hash = DestOf(s).Hash)
                    /\ MtimeDelta(s, DestOf(s)) <= 10) => ~IsListed(s)
                /\ MtimeDelta(s, DestOf(s)) = 100 => IsModified(s)
                /\ s.Size # DestOf(s).Size => IsModified(s)

\* a finished plan that matched a pair 10 microseconds apart and modified a
\* pair 100 microseconds apart
C7_Witness ==
    /\ PlanDone
    /\ ~PlanResult.failed
    /\ \E s \in SrcSet :
          HasDest(s) /\ MtimeDelta(s, DestOf(s)) = 10 /\ ~IsListed(s)
    /\ \E s \in SrcSet :
          HasDest(s) /\ MtimeDelta(s, DestOf(s)) = 100 /\ IsModified(s)

(***************************************************************************)
(* The snapshot store: Offsite, CommitOffsite, OffsiteRestore              *)
(***************************************************************************)
\* the files of the source tree and, for each, the contents it can have as
\* <<size, mtime, hash>>: the first file can be rewritten (version 2), the
\* second has the bytes of version 1 of the first
StoreNames == <<SrcNames("nt")[1], SrcNames("nt")[2]>>
StoreVersions ==
    << << <<1, 100, "h1">>, <<2, 100, "h2">> >>,
       << <<1, 100, "h1">> >> >>

VersionInfo(i, v) ==
    FileInfo(StoreNames[i], StoreVersions[i][v][1], StoreVersions[i][v][2],
             StoreVersions[i][v][3])

\* _GetFileInfo over the source tree: one _FileInfo per file found, hashed
RECURSIVE ScanFrom(_, _)
ScanFrom(src, i) ==
    IF i > Len(src) THEN <<>>
    ELSE (IF src[i] = 0 THEN <<>> ELSE <<VersionInfo(i, src[i])>>) \o ScanFrom(src, i + 1)

GetFileInfo(src) == ScanFrom(src, 1)

\* a snapshot directory: data.json (when hasData), the blob files, or, once
\* archived, Backup.7z holding both
EmptyDir == [hasData |-> FALSE, data |-> <<>>, blobs |-> {}, zipped |-> FALSE]

\* dest_file_info when the historical manifest is never read
LoadDestInfoUnread(force, manifest) == <<>>

\* dest_file_info keeping the records read before the one that lacks a field
LoadDestInfoPartial(force, manifest) ==
    IF ~force /\ manifest.st = "ok" THEN manifest.items
    ELSE IF ~force /\ manifest.st = "short"
    THEN SubSeq(manifest.items, 1, Len(manifest.items) - 1)
    ELSE <<>>

\* the historical manifest as Offsite loads it: dest_file_info, assigned
\* only when json.load and every FromJson went through
LoadDestInfo(force, manifest) ==
    IF ~force /\ manifest.st = "ok" THEN manifest.items ELSE <<>>

\* dest_hashes after the load
LoadDestHashes(force, manifest) ==
    {LoadDestInfo(force, manifest)[i].Hash : i \in 1..Len(LoadDestInfo(force, manifest))}

\* the add/modify records of data.json, in plan order
RECURSIVE DataOfEntries(_)
DataOfEntries(entries) ==
    IF entries = <<>> THEN <<>>
    ELSE <<[filename |-> Head(entries).sfi.Name, hash |-> Head(entries).sfi.Hash,
            operation |-> Head(entries).op]>> \o DataOfEntries(Tail(entries))

\* the remove records of data.json
RECURSIVE DataOfRemoves(_)
DataOfRemoves(removes) ==
    IF removes = <<>> THEN <<>>
    ELSE <<[filename |-> Head(removes).Name, hash |-> Head(removes).Hash,
            operation |-> "remove"]>> \o DataOfRemoves(Tail(removes))

\* to_copy with every add/modify entry copied, known hash or not
RECURSIVE ToCopyAll(_, _)
ToCopyAll(entries, known) ==
    IF entries = <<>> THEN <<>>
    ELSE <<[name |-> Head(entries).sfi.Name, hash |-> Head(entries).sfi.Hash]>>
            \o ToCopyAll(Tail(entries), known)

\* to_copy: the entries whose hash is not in dest_hashes, which grows as
\* the loop goes
RECURSIVE ToCopy(_, _)
ToCopy(entries, known) ==
    IF entries = <<>> THEN <<>>
    ELSE IF Head(entries).sfi.Hash \in known THEN ToCopy(Tail(entries), known)
    ELSE <<[name |-> Head(entries).sfi.Name, hash |-> Head(entries).sfi.Hash]>>
            \o ToCopy(Tail(entries), known \cup {Head(entries).sfi.Hash})

\* the directory Offsite writes to: the one of the previous run again, or a
\* new one named after all the others
OutIndex(fresh) == IF fresh \/ outDir = 0 THEN Len(chain) + 1 ELSE outDir

InitStore ==
    /\ source = [i \in 1..Len(StoreNames) |-> 0]
    /\ live = Absent
    /\ pending = Absent
    /\ suffixCopy = Absent
    /\ outDir = 0
    /\ chain = <<>>
    /\ pc = "idle"
    /\ run = NoRun
    /\ lastResult = "0"
    /\ lastOp = None
    /\ lastDisplay = FALSE
    /\ restored = {}
    /\ mirrored = {}
    /\ nRuns = 0

Init ==
    /\ plat = "nt"
    /\ destDir = NoDir
    /\ srcList = <<>>
    /\ dstList = <<>>
    /\ simple = FALSE
    /\ work = <<>>
    /\ InitStore

\* the operation returns `result`; its locals are gone
ReturnFrom(op, result, display_only) ==
    /\ pc' = "idle"
    /\ run' = NoRun
    /\ lastOp' = op
    /\ lastResult' = result
    /\ lastDisplay' = display_only

Return(op, result) == ReturnFrom(op, result, FALSE)

\* the operation goes on to its step `next`
Goto(next) ==
    /\ pc' = next
    /\ UNCHANGED <<lastOp, lastResult, lastDisplay>>

\* an operation starts: what the previous one reported is no longer looked at
Forget ==
    /\ lastOp' = None
    /\ lastResult' = "0"
    /\ lastDisplay' = FALSE

\* a file of the source tree is created, rewritten, touched or deleted
\* while no operation runs
EditSource ==
    /\ pc = "idle"
    /\ \E i \in 1..Len(StoreNames) : \E v \in 0..Len(StoreVersions[i]) :
        /\ source[i] # v
        /\ source' = [source EXCEPT ![i] = v]
    /\ Forget
    /\ restored' = {}
    /\ mirrored' = {}
    /\ UNCHANGED <<planVars, live, pending, suffixCopy, outDir, chain, pc, run, nRuns>>

\* Offsite up to the first write: scan, load the historical manifest, plan,
\* build data and to_copy; returns at once for display_only and for an empty
\* plan.  The arguments are the values the parameters are drawn from.
OffsiteBeginWith(forces, auto_commits, display_onlys, compresses, freshes) ==
    /\ pc = "idle"
    /\ nRuns < MaxRuns
    /\ \E force \in forces :
        LET sfis   == GetFileInfo(source)
            dfis   == LoadDestInfo(force, live)
            w      == CreateWork(plat, sfis, dfis, NoDir, FALSE)
            data   == DataOfEntries(w.entries) \o DataOfRemoves(w.removes)
            tocopy == ToCopy(w.entries, LoadDestHashes(force, live))
            locals == [NoRun EXCEPT !.force = force, !.sfis = sfis,
                                    !.hashes = LoadDestHashes(force, live),
                                    !.data = data, !.to_copy = tocopy,
                                    !.left = 1..Len(tocopy), !.op = "Offsite"]
        IN  \E auto_commit \in auto_commits, display_only \in display_onlys,
               compress \in compresses, fresh \in freshes :
                IF display_only THEN ReturnFrom("Offsite", "0", TRUE)
                ELSE IF data = <<>> THEN Return("Offsite", "1")
                ELSE /\ pc' = "o_clean"
                     /\ Forget
                     /\ run' = [locals EXCEPT !.auto_commit = auto_commit,
                                              !.compress = compress,
                                              !.out = OutIndex(fresh)]
    /\ nRuns' = nRuns + 1
    /\ restored' = {}
    /\ mirrored' = {}
    /\ UNCHANGED <<planVars, source, live, pending, suffixCopy, outDir, chain>>

\* Offsite writing to the output_dir of the run before
OffsiteBegin == OffsiteBeginWith(BOOLEAN, BOOLEAN, BOOLEAN, BOOLEAN, {FALSE})

\* FileSystem.RemoveTree(output_dir); os.makedirs(output_dir)
OffsiteClean ==
    /\ pc = "o_clean"
    /\ chain' = IF run.out > Len(chain) THEN Append(chain, EmptyDir)
                ELSE [chain EXCEPT ![run.out] = EmptyDir]
    /\ outDir' = run.out
    /\ Goto("o_data")
    /\ UNCHANGED <<planVars, source, live, pending, suffixCopy, run, restored,
                   mirrored, nRuns>>

\* json.dump(data) into output_dir/data.json
OffsiteWriteData ==
    /\ pc = "o_data"
    /\ chain' = [chain EXCEPT ![run.out].hasData = TRUE, ![run.out].data = run.data]
    /\ Goto(IF run.to_copy # <<>> THEN "o_copy"
            ELSE IF run.compress THEN "o_zip" ELSE "o_pend_open")
    /\ UNCHANGED <<planVars, source, live, pending, suffixCopy, outDir, run, restored,
                   mirrored, nRuns>>

\* one task of TaskPool.Execute: shutil.copy2(source, output_dir/<hash>), which
\* may raise (ok is drawn from oks); the pool runs every task and returns
\* non-zero if one failed
OffsiteCopyWith(oks) ==
    /\ pc = "o_copy"
    /\ \E k \in run.left, ok \in oks :
        LET left   == run.left \ {k}
            failed == run.failed \/ ~ok
        IN  /\ chain' = IF ok THEN [chain EXCEPT ![run.out].blobs = @ \cup {run.to_copy[k].hash}]
                        ELSE chain
            /\ IF left # {}
               THEN /\ run' = [run EXCEPT !.left = left, !.failed = failed]
                    /\ Goto("o_copy")
               ELSE IF failed THEN Return("Offsite", "-1")
               ELSE /\ run' = [run EXCEPT !.left = left]
                    /\ Goto(IF run.compress THEN "o_zip" ELSE "o_pend_open")
    /\ UNCHANGED <<planVars, source, live, pending, suffixCopy, outDir, restored,
                   mirrored, nRuns>>

OffsiteCopy == OffsiteCopyWith(BOOLEAN)

\* the archive step going on to the pending write whatever the archiver
\* returned
OffsiteZipUnchecked(oks) ==
    /\ pc = "o_zip"
    /\ \E ok \in oks :
        /\ chain' = IF ok THEN [chain EXCEPT ![run.out].hasData = FALSE, ![run.out].zipped = TRUE]
                    ELSE chain
        /\ Goto("o_pend_open")
        /\ UNCHANGED run
    /\ UNCHANGED <<planVars, source, live, pending, suffixCopy, outDir, restored,
                   mirrored, nRuns>>

\* the archiver runs on the files of output_dir; on success the directory
\* holding Backup.7z is moved in place of output_dir
OffsiteZipWith(oks) ==
    /\ pc = "o_zip"
    /\ \E ok \in oks :
        IF ok
        THEN /\ chain' = [chain EXCEPT ![run.out].hasData = FALSE, ![run.out].zipped = TRUE]
             /\ Goto("o_pend_open")
             /\ UNCHANGED run
        ELSE /\ Return("Offsite", "-1")
             /\ UNCHANGED chain
    /\ UNCHANGED <<planVars, source, live, pending, suffixCopy, outDir, restored,
                   mirrored, nRuns>>

OffsiteZip == OffsiteZipWith(BOOLEAN)

\* open(pending_json_filename, 'w'): the file exists and is empty
OffsitePendingOpen ==
    /\ pc = "o_pend_open"
    /\ pending' = Corrupt
    /\ Goto("o_pend_dump")
    /\ UNCHANGED <<planVars, source, live, suffixCopy, outDir, chain, run, restored,
                   mirrored, nRuns>>

\* the scanned fingerprints dumped into json_filename itself
OffsitePendingDumpToLive ==
    /\ pc = "o_pend_dump"
    /\ live' = Manifest(run.sfis)
    /\ IF run.auto_commit
       THEN /\ Goto("c_check")
            /\ run' = [run EXCEPT !.suffix = TRUE]
       ELSE Return("Offsite", "0")
    /\ UNCHANGED <<planVars, source, pending, suffixCopy, outDir, chain, restored,
                   mirrored, nRuns>>

\* json.dump of the scanned fingerprints; then CommitOffsite(backup_name,
\* dm.stream) when auto_commit: the stream is its backup_suffix
OffsitePendingDump ==
    /\ pc = "o_pend_dump"
    /\ pending' = Manifest(run.sfis)
    /\ IF run.auto_commit
       THEN /\ Goto("c_check")
            /\ run' = [run EXCEPT !.suffix = TRUE]
       ELSE Return("Offsite", "0")
    /\ UNCHANGED <<planVars, source, live, suffixCopy, outDir, chain, restored,
                   mirrored, nRuns>>

\* CommitOffsite going on to its writes without looking for the pending file
CommitBeginUnchecked ==
    /\ pc \in {"idle", "c_check"}
    /\ \E suffix \in BOOLEAN :
        LET r == IF pc = "idle" THEN [NoRun EXCEPT !.suffix = suffix, !.op = "CommitOffsite"]
                 ELSE run
        IN  /\ pc' = "c_remove"
            /\ Forget
            /\ run' = r
    /\ restored' = {}
    /\ mirrored' = {}
    /\ UNCHANGED <<planVars, source, live, pending, suffixCopy, outDir, chain, nRuns>>

\* CommitOffsite up to its first write, called by the operator or at the
\* end of Offsite: fails when there is no pending file
CommitBegin ==
    /\ pc \in {"idle", "c_check"}
    /\ \E suffix \in BOOLEAN :
        LET r == IF pc = "idle" THEN [NoRun EXCEPT !.suffix = suffix, !.op = "CommitOffsite"]
                 ELSE run
        IN  IF pending.st = "absent" THEN Return(r.op, "-1")
            ELSE /\ pc' = "c_remove"
                 /\ Forget
                 /\ run' = r
    /\ restored' = {}
    /\ mirrored' = {}
    /\ UNCHANGED <<planVars, source, live, pending, suffixCopy, outDir, chain, nRuns>>

\* FileSystem.RemoveFile(json_filename)
CommitRemove ==
    /\ pc = "c_remove"
    /\ live' = Absent
    /\ Goto("c_move")
    /\ UNCHANGED <<planVars, source, pending, suffixCopy, outDir, chain, run,
                   restored, mirrored, nRuns>>

\* shutil.move(pending_json_filename, json_filename)
CommitMove ==
    /\ pc = "c_move"
    /\ live' = pending
    /\ pending' = Absent
    /\ IF run.suffix
       THEN /\ Goto("c_copy")
            /\ UNCHANGED run
       ELSE Return(run.op, "0")
    /\ UNCHANGED <<planVars, source, suffixCopy, outDir, chain, restored, mirrored, nRuns>>

\* shutil.copy2(json_filename, json_filename + "." + backup_suffix)
CommitCopy ==
    /\ pc = "c_copy"
    /\ suffixCopy' = live
    /\ Return(run.op, "0")
    /\ UNCHANGED <<planVars, source, live, pending, outDir, chain, restored,
                   mirrored, nRuns>>

\* the process is interrupted in the middle of an operation
Interrupt ==
    /\ pc # "idle"
    /\ Return(run.op, "killed")
    /\ UNCHANGED <<planVars, source, live, pending, suffixCopy, outDir, chain,
                   restored, mirrored, nRuns>>

(***************************************************************************)
(* OffsiteRestore                                                          *)
(***************************************************************************)
\* the accumulator of the replay: file_data (filename -> blob, a blob being
\* the directory it lies in and its hash), hashed_filenames (hash -> directory),
\* the directories as extraction leaves them, the directories that recorded
\* an error (result -1) or had no data.json (result 1), whether the call
\* returned early (archiver failure) or raised
RestoreStart(dirs) ==
    [file_data |-> {}, hashed |-> {}, dirs |-> dirs, errors |-> {}, info |-> {},
     stopped |-> FALSE, raised |-> FALSE]

HasKey(acc, filename) == \E f \in acc.file_data : f.filename = filename

HasHash(acc, hash) == \E h \in acc.hashed : h.hash = hash

\* one record of data.json, violations skipped
RestoreEntry(acc, idx, dir, e) ==
    IF e.operation \notin {"add", "modify", "remove"}
    THEN [acc EXCEPT !.errors = @ \cup {idx}]
    ELSE IF e.operation = "add" /\ HasKey(acc, e.filename)
    THEN [acc EXCEPT !.errors = @ \cup {idx}]
    ELSE IF e.operation \in {"modify", "remove"} /\ ~HasKey(acc, e.filename)
    THEN [acc EXCEPT !.errors = @ \cup {idx}]
    ELSE IF e.operation = "remove"
    THEN [acc EXCEPT !.file_data = {f \in @ : f.filename # e.filename}]
    ELSE IF ~HasHash(acc, e.hash) /\ e.hash \notin dir.blobs
    \* the message names `hasehd_filename`, which is not defined: NameError
    THEN [acc EXCEPT !.errors = @ \cup {idx}, !.raised = TRUE]
    ELSE LET hashed == IF HasHash(acc, e.hash) THEN acc.hashed
                       ELSE acc.hashed \cup {[hash |-> e.hash, dir |-> idx]}
             blob   == CHOOSE h \in hashed : h.hash = e.hash
         IN  [acc EXCEPT !.hashed = hashed,
                         !.file_data = {f \in @ : f.filename # e.filename}
                                        \cup {[filename |-> e.filename, dir |-> blob.dir,
                                               hash |-> e.hash]}]

RECURSIVE RestoreEntries(_, _, _, _)
RestoreEntries(acc, idx, dir, data) ==
    IF data = <<>> \/ acc.raised THEN acc
    ELSE RestoreEntries(RestoreEntry(acc, idx, dir, Head(data)), idx, dir, Tail(data))

\* the loop over the sorted directories; failAt is the directory whose
\* archive the archiver fails to extract (0: none)
RECURSIVE RestoreDirs(_, _, _)
RestoreDirs(acc, idx, failAt) ==
    IF idx > Len(acc.dirs) \/ acc.raised \/ acc.stopped THEN acc
    ELSE LET dir0    == acc.dirs[idx]
             extract == ~dir0.hasData /\ dir0.zipped
             dir     == IF extract THEN [dir0 EXCEPT !.hasData = TRUE, !.zipped = FALSE]
                        ELSE dir0
         IN  IF extract /\ failAt = idx THEN [acc EXCEPT !.stopped = TRUE]
             ELSE IF ~dir.hasData
             THEN RestoreDirs([acc EXCEPT !.info = @ \cup {idx}], idx + 1, failAt)
             ELSE RestoreDirs(RestoreEntries([acc EXCEPT !.dirs[idx] = dir], idx, dir, dir.data),
                              idx + 1, failAt)

\* the characters of the paths, in code point order
Alphabet == <<"/", ":", "C", "D", "E", "\\", "_", "b", "d", "q", "r", "x", "y", "z">>

CharLess(a, b) == IndexOf(Alphabet, a) < IndexOf(Alphabet, b)

\* a < b for strings
RECURSIVE StrLess(_, _)
StrLess(a, b) ==
    IF b = <<>> THEN FALSE
    ELSE IF a = <<>> THEN TRUE
    ELSE IF Head(a) = Head(b) THEN StrLess(Tail(a), Tail(b))
    ELSE CharLess(Head(a), Head(b))

\* sorted(keys)
RECURSIVE Sorted(_)
Sorted(keys) ==
    IF keys = {} THEN <<>>
    ELSE LET m == CHOOSE k \in keys : \A o \in keys \ {k} : StrLess(k, o)
         IN  <<m>> \o Sorted(keys \ {m})

\* str.replace(k, v): every occurrence of k, left to right
RECURSIVE StrReplace(_, _, _)
StrReplace(str, k, v) ==
    IF str = <<>> THEN <<>>
    ELSE IF k # <<>> /\ StartsWith(str, k) THEN v \o StrReplace(DropN(str, Len(k)), k, v)
    ELSE <<Head(str)>> \o StrReplace(Tail(str), k, v)

\* for k, v in dir_substitutions: file_data[key.replace(k, v)] = file_data[key];
\* del file_data[key], for one key; a key that is gone raises KeyError
RECURSIVE SubstKey(_, _, _)
SubstKey(acc, key, subs) ==
    IF subs = <<>> \/ acc.raised THEN acc
    ELSE IF ~HasKey(acc, key) THEN [acc EXCEPT !.raised = TRUE]
    ELSE LET new_key == StrReplace(key, Head(subs).k, Head(subs).v)
             f       == CHOOSE g \in acc.file_data : g.filename = key
             put     == {g \in acc.file_data : g.filename # new_key}
                            \cup {[f EXCEPT !.filename = new_key]}
         IN  SubstKey([acc EXCEPT !.file_data = {g \in put : g.filename # key}], key, Tail(subs))

RECURSIVE SubstKeys(_, _, _)
SubstKeys(acc, keys, subs) ==
    IF keys = <<>> \/ acc.raised THEN acc
    ELSE SubstKeys(SubstKey(acc, Head(keys), subs), Tail(keys), subs)

Substitute(acc, subs) ==
    IF subs = <<>> THEN acc
    ELSE SubstKeys(acc, Sorted({f.filename : f \in acc.file_data}), subs)

\* the values dir_substitution takes: none, or one prefix rewritten
Substs ==
    { <<>>,
      <<[k |-> <<"C", ":", "\\", "r">>, v |-> <<"C", ":", "\\", "q">>]>> }

\* the substitutions follow the replay of all directories when the loop
\* ended normally
Substituted(r, subs) == IF r.raised \/ r.stopped THEN r ELSE Substitute(r, subs)

RestoreResult(r) ==
    IF r.raised THEN "raised"
    ELSE IF r.stopped \/ r.errors # {} THEN "-1"
    ELSE IF r.info # {} THEN "1"
    ELSE "0"

\* the names of the snapshot directories, in the order in which the runs
\* created them
DirNames == << <<"b">>, <<"d">>, <<"q">>, <<"r">> >>

\* the orders n directories can be put in
Listings(n) == {f \in [1..n -> 1..n] : \A i, j \in 1..n : f[i] = f[j] => i = j}

\* the orders in which os.listdir delivers n directories: as created, or
\* the other way round
RECURSIVE Ascending(_, _)
Ascending(i, n) == IF i > n THEN <<>> ELSE <<i>> \o Ascending(i + 1, n)

RECURSIVE Descending(_)
Descending(n) == IF n = 0 THEN <<>> ELSE <<n>> \o Descending(n - 1)

ListDir(n) == {Ascending(1, n), Descending(n)}

\* the directories as listed, not sorted
UnsortedListing(listing) == listing

\* the positions in DirNames of the names of a sequence
RECURSIVE DirIndices(_)
DirIndices(names) ==
    IF names = <<>> THEN <<>>
    ELSE <<IndexOf(DirNames, Head(names))>> \o DirIndices(Tail(names))

\* dirs = sorted(dirs): the listed directories in ascending order of name
SortedListing(listing) ==
    DirIndices(Sorted({DirNames[listing[i]] : i \in 1..Len(listing)}))

\* the elements of seq taken in the order `order` of their positions
RECURSIVE Reorder(_, _)
Reorder(seq, order) ==
    IF order = <<>> THEN <<>>
    ELSE <<seq[Head(order)]>> \o Reorder(seq, Tail(order))

\* the position of each element of a permutation
RECURSIVE Inverse(_, _)
Inverse(order, k) ==
    IF k > Len(order) THEN <<>>
    ELSE <<IndexOf(order, k)>> \o Inverse(order, k + 1)

\* OffsiteRestore(source_dir, dir_substitution, display_only): every copy of
\* the materialization succeeds
OffsiteRestoreWith(substs, failAts) ==
    /\ pc = "idle"
    /\ \E failAt \in failAts,
          order \in {SortedListing(listing) : listing \in ListDir(Len(chain))} :
        LET dirs   == Reorder(chain, order)
            looped == RestoreDirs(RestoreStart(dirs), 1, failAt)
        IN  /\ failAt # 0 => (dirs[failAt].zipped /\ ~dirs[failAt].hasData)
            /\ chain' = Reorder(looped.dirs, Inverse(order, 1))
            /\ \E subs \in substs :
                LET r     == Substituted(looped, subs)
                    res   == RestoreResult(r)
                    files == IF r.raised \/ r.stopped THEN {}
                             ELSE {[filename |-> f.filename, hash |-> f.hash] :
                                        f \in r.file_data}
                IN  \E display_only \in BOOLEAN :
                        /\ restored' = IF display_only THEN {} ELSE files
                        /\ ReturnFrom("OffsiteRestore", res, display_only)
    /\ mirrored' = {}
    /\ UNCHANGED <<planVars, source, live, pending, suffixCopy, outDir, nRuns>>

\* any dir_substitution of Substs; the archiver may fail on any directory
OffsiteRestore == OffsiteRestoreWith(Substs, 0..Len(chain))

(***************************************************************************)
(* Mirror, as one step                                                     *)
(***************************************************************************)
\* _GetFileInfo with simple_compare: the hash is not computed
RECURSIVE WithoutHash(_)
WithoutHash(infos) ==
    IF infos = <<>> THEN <<>>
    ELSE <<[Head(infos) EXCEPT !.Hash = None]>> \o WithoutHash(Tail(infos))

\* _GetFileInfo over a tree given as a set of files
RECURSIVE FilesNamed(_, _)
FilesNamed(tree, names) ==
    IF names = <<>> THEN <<>>
    ELSE <<CHOOSE f \in tree : f.Name = Head(names)>> \o FilesNamed(tree, Tail(names))

TreeScan(tree) == FilesNamed(tree, Sorted({f.Name : f \in tree}))

\* the destination trees Mirror is run on: no directory yet, or a directory
\* holding the two files of an earlier mirror
MirrorDests ==
    { {},
      { FileInfo(DstNames("nt", DestRoot("nt"))[1], 1, 100, "h1"),
        FileInfo(DstNames("nt", DestRoot("nt"))[2], 2, 100, "h2") } }

\* the tree after the copy tasks: each task that does not fail replaces
\* dest by the bytes and the mtime of source (copy2 to dest.copying, move)
RECURSIVE MirrorCopy(_, _, _, _, _)
MirrorCopy(tree, entries, files, k, fails) ==
    IF k > Len(entries) THEN tree
    ELSE LET e   == entries[k]
             src == CHOOSE f \in files : f.Name = e.sfi.Name
             t   == IF k \in fails THEN tree
                    ELSE {f \in tree : f.Name # e.dest} \cup {[src EXCEPT !.Name = e.dest]}
         IN  MirrorCopy(t, entries, files, k + 1, fails)

\* the tree after the remove tasks
MirrorRemove(tree, removes, fails) ==
    {f \in tree : \A k \in 1..Len(removes) : k \in fails \/ removes[k].Name # f.Name}

\* the plan of Mirror: both sides scanned without hash under
\* simple_compare, the destination not scanned at all under force or when
\* it does not exist
MirrorPlan(p, sfis, dscan, root, force, simple_compare) ==
    LET s == IF simple_compare THEN WithoutHash(sfis) ELSE sfis
        d == IF simple_compare THEN WithoutHash(dscan) ELSE dscan
    IN  CreateWork(p, s, IF ~force /\ dscan # <<>> THEN d ELSE <<>>, root, simple_compare)

\* the copy tasks, then the remove tasks unless a copy failed: the tree they
\* leave and the result; fails names the failing tasks of each phase
MirrorExecute(tree, w, files, fails) ==
    LET cf      == fails[1] \cap (1..Len(w.entries))
        rf      == fails[2] \cap (1..Len(w.removes))
        copied  == MirrorCopy(tree, w.entries, files, 1, cf)
        removed == MirrorRemove(copied, w.removes, rf)
    IN  IF cf # {} THEN [tree |-> copied, result |-> "-1"]
        ELSE IF rf # {} THEN [tree |-> removed, result |-> "-1"]
        ELSE [tree |-> removed,
              result |-> IF w.entries = <<>> /\ w.removes = <<>> THEN "1" ELSE "0"]

\* the task failures drawn: none, the first copy, the first remove
TaskFailures == {<<{}, {}>>, <<{1}, {}>>, <<{}, {1}>>}

\* Mirror(destination, input, force, simple_compare, display_only); the
\* destination tree is drawn from MirrorDests
Mirror ==
    /\ pc = "idle"
    /\ \E force \in BOOLEAN, simple_compare \in BOOLEAN, display_only \in BOOLEAN,
          dest \in MirrorDests, fails \in TaskFailures :
        LET w == MirrorPlan(plat, GetFileInfo(source), TreeScan(dest), DestRoot(plat),
                            force, simple_compare)
            o == MirrorExecute(dest, w, SeqToSet(GetFileInfo(source)), fails)
        IN  IF w.failed
            THEN mirrored' = dest /\ Return("Mirror", "raised")
            ELSE IF display_only
            THEN mirrored' = dest /\ ReturnFrom("Mirror", "0", TRUE)
            ELSE mirrored' = o.tree /\ Return("Mirror", o.result)
    /\ restored' = {}
    /\ UNCHANGED <<planVars, source, live, pending, suffixCopy, outDir, chain, nRuns>>

\* ---------------------------------------------------------------------
\* Mirror in steps, on the files the scanners deliver (srcList is the
\* input, dstList the files under the destination directory)
\* ---------------------------------------------------------------------

InitMirror ==
    /\ plat \in Plats
    /\ destDir = DestRoot(plat)
    /\ srcList = <<>>
    /\ dstList = <<>>
    /\ simple = FALSE
    /\ work = <<>>
    /\ StoreIdle

\* Mirror up to the end of the plan: both scans, _CreateWork, and the
\* return of display_only
MirrorBegin ==
    /\ pc = "idle"
    /\ work = <<>>
    /\ \E force \in BOOLEAN, simple_compare \in BOOLEAN, display_only \in BOOLEAN :
        LET w == MirrorPlan(plat, srcList, dstList, destDir, force, simple_compare)
        IN  /\ simple' = simple_compare
            /\ work' = <<w>>
            /\ IF w.failed THEN Return("Mirror", "raised") /\ UNCHANGED srcList
               ELSE IF display_only THEN ReturnFrom("Mirror", "0", TRUE) /\ UNCHANGED srcList
               ELSE /\ pc' = "m_apply"
                    /\ run' = [NoRun EXCEPT !.force = force, !.op = "Mirror"]
                    /\ Forget
                    /\ UNCHANGED srcList
    /\ mirrored' = SeqToSet(dstList)
    /\ UNCHANGED <<plat, destDir, dstList, source, live, pending, suffixCopy, outDir,
                   chain, restored, nRuns>>

\* the copy tasks and the remove tasks of the plan
MirrorApply ==
    /\ pc = "m_apply"
    /\ \E fails \in TaskFailures :
        LET o == MirrorExecute(SeqToSet(dstList), work[1], SeqToSet(srcList), fails)
        IN  /\ fails[1] \subseteq 1..Len(work[1].entries)
            /\ fails[2] \subseteq 1..Len(work[1].removes)
            /\ mirrored' = o.tree
            /\ Return("Mirror", o.result)
    /\ UNCHANGED <<planVars, source, live, pending, suffixCopy, outDir, chain,
                   restored, nRuns>>

NextMirror == AddSource \/ AddDest \/ MirrorBegin \/ MirrorApply

SpecMirror == InitMirror /\ [][NextMirror]_vars

Next ==
    \/ EditSource
    \/ OffsiteBegin \/ OffsiteClean \/ OffsiteWriteData \/ OffsiteCopy \/ OffsiteZip
    \/ OffsitePendingOpen \/ OffsitePendingDump
    \/ CommitBegin \/ CommitRemove \/ CommitMove \/ CommitCopy
    \/ OffsiteRestore
    \/ Interrupt

Spec == Init /\ [][Next]_vars

(***************************************************************************)
(* All four operations on a source tree that stays as it is                *)
(***************************************************************************)
SourceTrees ==
    {t \in [1..Len(StoreNames) -> 0..2] : \A i \in 1..Len(StoreNames) : t[i] <= Len(StoreVersions[i])}

InitOps ==
    /\ plat = "nt"
    /\ destDir = NoDir
    /\ srcList = <<>>
    /\ dstList = <<>>
    /\ simple = FALSE
    /\ work = <<>>
    /\ source \in SourceTrees
    /\ live = Absent
    /\ pending = Absent
    /\ suffixCopy = Absent
    /\ outDir = 0
    /\ chain = <<>>
    /\ pc = "idle"
    /\ run = NoRun
    /\ lastResult = "0"
    /\ lastOp = None
    /\ lastDisplay = FALSE
    /\ restored = {}
    /\ mirrored = {}
    /\ nRuns = 0

NextOps ==
    \/ OffsiteBegin \/ OffsiteClean \/ OffsiteWriteData \/ OffsiteCopy \/ OffsiteZip
    \/ OffsitePendingOpen \/ OffsitePendingDump
    \/ CommitBegin \/ CommitRemove \/ CommitMove \/ CommitCopy
    \/ OffsiteRestore
    \/ Mirror

SpecOps == InitOps /\ [][NextOps]_vars

(***************************************************************************)
(* A chain of committed snapshots, each in a directory of its own          *)
(***************************************************************************)
\* Offsite with auto_commit into a new directory
OffsiteBeginChain == OffsiteBeginWith(BOOLEAN, {TRUE}, BOOLEAN, BOOLEAN, {TRUE})

\* every copy task succeeds
OffsiteCopyChain == OffsiteCopyWith({TRUE})

\* the archiver succeeds
OffsiteZipChain == OffsiteZipWith({TRUE})

\* OffsiteRestore with no dir_substitution; every archive is extracted
OffsiteRestoreChain == OffsiteRestoreWith({<<>>}, {0})

\* the live manifest is damaged on disk: it no longer parses, or its last
\* record has lost a field
DamageLive ==
    /\ pc = "idle"
    /\ live.st = "ok"
    /\ \E damaged \in {Corrupt} \cup (IF live.items # <<>> THEN {Short(live.items)} ELSE {}) :
        live' = damaged
    /\ Forget
    /\ restored' = {}
    /\ mirrored' = {}
    /\ UNCHANGED <<planVars, source, pending, suffixCopy, outDir, chain, pc, run, nRuns>>

NextChain ==
    \/ EditSource
    \/ DamageLive
    \/ OffsiteBeginChain \/ OffsiteClean \/ OffsiteWriteData \/ OffsiteCopyChain
    \/ OffsiteZipChain \/ OffsitePendingOpen \/ OffsitePendingDump
    \/ CommitBegin \/ CommitRemove \/ CommitMove \/ CommitCopy
    \/ OffsiteRestoreChain

SpecChain == Init /\ [][NextChain]_vars

(***************************************************************************)
(* Properties of the snapshot store                                        *)
(***************************************************************************)
\* C1: while a written .pending file waits for the rename of CommitOffsite
\* (every step taken with the pending manifest complete, other than the
\* rename itself), the live manifest keeps the content it had.
C1_CommitAtomicity ==
    [][(pending.st = "ok" /\ pc # "c_move") => live' = live]_vars

\* C2: the live manifest is changed only by the writes of CommitOffsite (its
\* RemoveFile and its move), and those are reached only by CommitOffsite
\* itself or by Offsite called with auto_commit: Offsite without auto_commit,
\* whatever its outcome, Mirror and OffsiteRestore leave it as it is.
C2_LiveChangedOnlyByCommit ==
    [][live' # live => /\ pc \in {"c_remove", "c_move"}
                       /\ (run.op = "CommitOffsite" \/ run.auto_commit)]_vars

\* an Offsite run without auto_commit has ended, with a pending manifest
\* written next to a live one
C2_Witness ==
    /\ lastOp = "Offsite"
    /\ lastResult = "0"
    /\ ~lastDisplay
    /\ pending.st = "ok"
    /\ live.st = "ok"

\* C3: CommitOffsite called while no .pending file exists returns non-zero
\* at once and leaves the live manifest, the suffixed copy and the snapshot
\* directories as they were, creating nothing; after a successful
\* CommitOffsite no .pending file exists, so the next one fails this way.
C3_CommitWithoutPending ==
    [][/\ (pc = "idle" /\ pending.st = "absent"
              /\ (lastOp' = "CommitOffsite" \/ run'.op = "CommitOffsite"))
          => /\ pc' = "idle"
             /\ lastOp' = "CommitOffsite"
             /\ lastResult' = "-1"
             /\ UNCHANGED <<live, pending, suffixCopy, chain, outDir>>
       /\ (lastOp' = "CommitOffsite" /\ lastResult' = "0") => pending'.st = "absent"]_vars

\* CommitOffsite has failed for want of a pending file while a committed
\* manifest exists
C3_Witness ==
    /\ lastOp = "CommitOffsite"
    /\ lastResult = "-1"
    /\ live.st = "ok"
    /\ pending.st = "absent"

\* what OffsiteRestore has to produce for a source tree: its files, each
\* with its content hash
TreeOf(src) ==
    {[filename |-> f.Name, hash |-> f.Hash] : f \in SeqToSet(GetFileInfo(src))}

\* C8: once every state of the source tree up to the present one has been
\* snapshotted into a directory of its own and committed (the live manifest
\* is the scan of the source tree), OffsiteRestore over the chain records no
\* error and materializes exactly the files of the source tree with their
\* hashes, whatever the force flags of the runs.
C8_ReplayRoundTrip ==
    (/\ lastOp = "OffsiteRestore"
     /\ ~lastDisplay
     /\ live = Manifest(GetFileInfo(source)))
        => (lastResult = "0" /\ restored = TreeOf(source))

\* an Offsite call on a source tree that the live manifest describes
\* (the run before it was committed and nothing changed since), made without
\* display_only and, as far as the step shows, without force
UnchangedRun ==
    /\ pc = "idle"
    /\ nRuns' = nRuns + 1
    /\ live = Manifest(GetFileInfo(source))
    /\ live.items # <<>>
    /\ ~lastDisplay'
    /\ ~(pc' = "o_clean" /\ run'.force)

\* C9 as stated: the second of two Offsite runs on an unchanged source leaves
\* in output_dir a data.json describing zero entries, and no blob.
C9_DedupEmptySnapshot ==
    [][UnchangedRun => /\ outDir' # 0
                       /\ pc' = "idle"
                       /\ chain'[outDir'].hasData
                       /\ chain'[outDir'].data = <<>>
                       /\ chain'[outDir'].blobs = {}]_vars

\* C9, amended: an Offsite run (without force) on a source tree unchanged
\* since the committed run before it has an empty plan and returns 1 at once:
\* it writes no data.json, copies no blob, and leaves output_dir, the
\* pending file and the live manifest as they were.
C9_DedupNoSnapshot ==
    [][UnchangedRun => /\ pc' = "idle"
                       /\ lastOp' = "Offsite"
                       /\ lastResult' = "1"
                       /\ UNCHANGED <<chain, outDir, pending, live, suffixCopy>>]_vars

\* the second run has returned 1 and output_dir still holds the snapshot of
\* the first
C9_Witness ==
    /\ lastOp = "Offsite"
    /\ lastResult = "1"
    /\ live = Manifest(GetFileInfo(source))
    /\ live.items # <<>>
    /\ outDir # 0
    /\ chain[outDir].data # <<>>

\* the hashes the rule asks the run to copy: those of the add and modify
\* records that the loaded manifest does not know
BlobRule ==
    {run.data[i].hash : i \in {j \in 1..Len(run.data) :
                                    run.data[j].operation \in {"add", "modify"}}}
        \ run.hashes

\* C10: in an Offsite run the blobs copied into output_dir are those of
\* BlobRule: none other while the copies go on, all of them once the copy
\* phase has succeeded; each hash is copied by one task only, even when
\* several files have it, and remove records cause no copy.
C10_BlobDedupRule ==
    run.op = "Offsite" =>
        /\ \A i, j \in 1..Len(run.to_copy) :
                run.to_copy[i].hash = run.to_copy[j].hash => i = j
        /\ {run.to_copy[i].hash : i \in 1..Len(run.to_copy)} = BlobRule
        /\ pc = "o_data" => chain[run.out].blobs = {}
        /\ pc = "o_copy" => chain[run.out].blobs \subseteq BlobRule
        /\ pc \in {"o_zip", "o_pend_open", "o_pend_dump", "c_check", "c_remove",
                   "c_move", "c_copy"} => chain[run.out].blobs = BlobRule

\* two files with the same bytes have been added and one blob copied
C10_Witness ==
    /\ run.op = "Offsite"
    /\ pc = "o_pend_open"
    /\ Len(run.data) = 2
    /\ \A i \in 1..2 : run.data[i].operation = "add"
    /\ run.data[1].hash = run.data[2].hash
    /\ Cardinality(chain[run.out].blobs) = 1

(***************************************************************************)
(* Runs that may fail or be interrupted, each in a directory of its own    *)
(***************************************************************************)
\* Offsite into a new directory, committed at once or not
OffsiteBeginKeep == OffsiteBeginWith(BOOLEAN, BOOLEAN, BOOLEAN, BOOLEAN, {TRUE})

NextKeep ==
    \/ EditSource
    \/ OffsiteBeginKeep \/ OffsiteClean \/ OffsiteWriteData \/ OffsiteCopy \/ OffsiteZip
    \/ OffsitePendingOpen \/ OffsitePendingDump
    \/ CommitBegin \/ CommitRemove \/ CommitMove \/ CommitCopy
    \/ Interrupt

SpecKeep == Init /\ [][NextKeep]_vars

\* the blob of `hash` lies in directory d of the chain or in an earlier one
BlobPresent(d, hash) == \E k \in 1..d : hash \in chain[k].blobs

\* C11: whenever no operation is running, every add or modify record of the
\* data.json of every snapshot directory names a hash whose blob lies in that
\* directory or in an earlier one of the chain (no directory is ever written
\* twice: every run has its own).
C11_SnapshotBlobInvariant ==
    pc = "idle" =>
        \A d \in 1..Len(chain) : \A i \in 1..Len(chain[d].data) :
            chain[d].data[i].operation \in {"add", "modify"}
                => BlobPresent(d, chain[d].data[i].hash)

(***************************************************************************)
(* OffsiteRestore over snapshot directories of any content                 *)
(***************************************************************************)
MaxDirs == 2
MaxEntries == 3

\* the records a data.json can hold: well-formed operations on two files,
\* and one whose operation OffsiteRestore does not know
ManifestEntries ==
    { [filename |-> StoreNames[1], hash |-> "h1", operation |-> "add"],
      [filename |-> StoreNames[1], hash |-> "h2", operation |-> "modify"],
      [filename |-> StoreNames[1], hash |-> "h1", operation |-> "remove"],
      [filename |-> StoreNames[2], hash |-> "h1", operation |-> "add"],
      [filename |-> StoreNames[2], hash |-> "h1", operation |-> "remove"],
      [filename |-> StoreNames[1], hash |-> "h1", operation |-> "rename"] }

\* the number of records in all the data.json files
RECURSIVE CountEntries(_)
CountEntries(dirs) ==
    IF dirs = <<>> THEN 0 ELSE Len(Head(dirs).data) + CountEntries(Tail(dirs))

\* a snapshot directory appears in source_dir, its data.json holding no
\* record yet
AddDir ==
    /\ pc = "idle"
    /\ Len(chain) < MaxDirs
    /\ chain' = Append(chain, [EmptyDir EXCEPT !.hasData = TRUE])
    /\ Forget
    /\ restored' = {}
    /\ UNCHANGED <<planVars, source, live, pending, suffixCopy, outDir, pc, run,
                   mirrored, nRuns>>

\* a record is appended to the data.json of the newest directory; the blob
\* of an add or modify record is put next to it, or is missing
AddEntry ==
    /\ pc = "idle"
    /\ chain # <<>>
    /\ CountEntries(chain) < MaxEntries
    /\ \E e \in ManifestEntries, blob \in BOOLEAN :
        /\ blob => e.operation \in {"add", "modify"}
        /\ chain' = [chain EXCEPT ![Len(chain)].data = Append(@, e),
                                  ![Len(chain)].blobs = IF blob THEN @ \cup {e.hash} ELSE @]
    /\ Forget
    /\ restored' = {}
    /\ UNCHANGED <<planVars, source, live, pending, suffixCopy, outDir, pc, run,
                   mirrored, nRuns>>

\* OffsiteRestore with no dir_substitution; no archive to extract
OffsiteRestoreDirs == OffsiteRestoreWith({<<>>}, {0})

NextRestore == AddDir \/ AddEntry \/ OffsiteRestoreDirs

SpecRestore == Init /\ [][NextRestore]_vars

(***************************************************************************)
(* Properties of the replay                                                *)
(***************************************************************************)
\* the directories of the chain in ascending order of name
NameOrder ==
    CHOOSE f \in Listings(Len(chain)) :
        \A i, j \in 1..Len(chain) : i < j => StrLess(DirNames[f[i]], DirNames[f[j]])

\* the records of all the data.json files in the order `order` of the
\* directories, each with the position of its directory
RECURSIVE FlatFrom(_, _)
FlatFrom(order, i) ==
    IF i > Len(order) THEN <<>>
    ELSE LET data == chain[order[i]].data
         IN  [k \in 1..Len(data) |-> [e |-> data[k], pos |-> i]] \o FlatFrom(order, i + 1)

\* the last of the first k records of flat that is about `filename` (0: none)
LastIndex(flat, k, filename) ==
    LET about == {i \in 1..k : flat[i].e.filename = filename}
    IN  IF about = {} THEN 0 ELSE CHOOSE i \in about : \A j \in about : j <= i

\* `filename` was added and not removed since, as of the first k records
PresentAfter(flat, k, filename) ==
    LET last == LastIndex(flat, k, filename)
    IN  last # 0 /\ flat[last].e.operation # "remove"

\* every record is one the replay accepts: a known operation, an add of a
\* file not there, a modify or remove of a file that is there, and for add
\* and modify a blob in the directory of the record or in one before it
WellFormed(order, flat) ==
    \A k \in 1..Len(flat) :
        LET e == flat[k].e
        IN  /\ e.operation \in {"add", "modify", "remove"}
            /\ e.operation = "add" => ~PresentAfter(flat, k - 1, e.filename)
            /\ e.operation \in {"modify", "remove"} => PresentAfter(flat, k - 1, e.filename)
            /\ e.operation \in {"add", "modify"}
                   => \E i \in 1..flat[k].pos : e.hash \in chain[order[i]].blobs

\* the files a well-formed chain describes: those added and not removed
\* since, each with the hash of its last add or modify record
FoldOf(flat) ==
    {[filename |-> n, hash |-> flat[LastIndex(flat, Len(flat), n)].e.hash] :
        n \in {m \in {StoreNames[1], StoreNames[2]} : PresentAfter(flat, Len(flat), m)}}

\* C12: over a chain of well-formed manifests OffsiteRestore, whatever the
\* order in which the directories are listed, replays them in ascending
\* order of name and ends without error with exactly the files added and not
\* removed since, each with the hash of its last add or modify record.
C12_RestoreFold ==
    (lastOp = "OffsiteRestore" /\ ~lastDisplay)
        => LET order == NameOrder
               flat  == FlatFrom(order, 1)
           IN  WellFormed(order, flat) => (lastResult = "0" /\ restored = FoldOf(flat))

\* the first snapshot adds two files, the second removes one of them, and
\* the other one is restored
C12_Witness ==
    /\ lastOp = "OffsiteRestore"
    /\ ~lastDisplay
    /\ lastResult = "0"
    /\ Len(chain) = 2
    /\ Len(chain[1].data) = 2
    /\ Len(chain[2].data) = 1
    /\ chain[2].data[1].operation = "remove"
    /\ Cardinality(restored) = 1

\* record k of flat breaks a rule of the replay, files being the accumulator
\* before it
Violates(order, flat, k, files) ==
    LET e    == flat[k].e
        here == \E f \in files : f.filename = e.filename
    IN  \/ e.operation \notin {"add", "modify", "remove"}
        \/ e.operation = "add" /\ here
        \/ e.operation \in {"modify", "remove"} /\ ~here
        \/ /\ e.operation \in {"add", "modify"}
           /\ ~\E i \in 1..flat[k].pos : e.hash \in chain[order[i]].blobs

\* the replay as it has to go: a violating record sets the error and changes
\* nothing, any other record is applied, and the next record is looked at
RECURSIVE SkipFold(_, _, _, _)
SkipFold(order, flat, k, acc) ==
    IF k > Len(flat) THEN acc
    ELSE LET e == flat[k].e
         IN  IF Violates(order, flat, k, acc.files)
             THEN SkipFold(order, flat, k + 1, [acc EXCEPT !.error = TRUE])
             ELSE SkipFold(order, flat, k + 1,
                    [acc EXCEPT !.files =
                        {f \in @ : f.filename # e.filename}
                            \cup (IF e.operation = "remove" THEN {}
                                  ELSE {[filename |-> e.filename, hash |-> e.hash]})])

\* C13: OffsiteRestore ends with the accumulator that skipping every
\* violating record (add of a file already there, modify or remove of a file
\* not there, unknown operation, add or modify without a blob in this
\* directory or an earlier one) and applying every other record gives, and
\* reports an error exactly when some record was violating.
C13_ViolationHandling ==
    (lastOp = "OffsiteRestore" /\ ~lastDisplay)
        => LET order == NameOrder
               flat  == FlatFrom(order, 1)
               acc   == SkipFold(order, flat, 1, [files |-> {}, error |-> FALSE])
           IN  /\ restored = acc.files
               /\ lastResult = (IF acc.error THEN "-1" ELSE "0")

(***************************************************************************)
(* Properties of Offsite on a damaged manifest                             *)
(***************************************************************************)
\* C14: an Offsite run that found a live manifest it could not parse, or
\* one with a record lacking a field, goes on as on a first run: it knows no
\* hash, its data.json holds one add record for each source file, in scan
\* order, and once the copies are done output_dir holds one blob for each
\* distinct hash of the source files.
C14_CorruptManifestAsEmpty ==
    (/\ run.op = "Offsite"
     /\ ~run.force
     /\ pc \in {"o_clean", "o_data", "o_copy", "o_zip", "o_pend_open", "o_pend_dump"}
     /\ live.st \in {"corrupt", "short"})
        => /\ run.hashes = {}
           /\ Len(run.data) = Len(run.sfis)
           /\ \A i \in 1..Len(run.sfis) :
                run.data[i] = [filename |-> run.sfis[i].Name, hash |-> run.sfis[i].Hash,
                               operation |-> "add"]
           /\ {run.to_copy[i].hash : i \in 1..Len(run.to_copy)}
                = {run.sfis[i].Hash : i \in 1..Len(run.sfis)}
           /\ pc \in {"o_zip", "o_pend_open", "o_pend_dump"}
                => chain[run.out].blobs = {run.sfis[i].Hash : i \in 1..Len(run.sfis)}

\* a run on a manifest of two records, the second lacking a field, has
\* copied its blobs
C14_Witness ==
    /\ run.op = "Offsite"
    /\ ~run.force
    /\ pc = "o_pend_open"
    /\ live.st = "short"
    /\ Len(live.items) = 2
    /\ Len(run.data) = 2

\* ---------------------------------------------------------------------
\* Properties of Mirror
\* ---------------------------------------------------------------------

\* the name a source file has in the destination
MappedName(sfis, filename) ==
    ToDest(plat, MapperOf(plat, destDir, sfis), destDir, filename)

\* the tree is the image of the source files under the name mapping
MirrorImage(tree, sfis) ==
    /\ \A i \in 1..Len(sfis) :
        \E f \in tree :
            /\ f.Name = MappedName(sfis, sfis[i].Name)
            /\ f.Size = sfis[i].Size
            /\ f.LastModified = sfis[i].LastModified
            /\ f.Hash = sfis[i].Hash
    /\ \A f \in tree :
        \E i \in 1..Len(sfis) : f.Name = MappedName(sfis, sfis[i].Name)

\* C15: after a Mirror that was not display_only and returned success,
\* whatever force and simple_compare were, every source file is in the
\* destination under its mapped name with its content and mtime, and the
\* destination holds no other file
C15_MirrorPostcondition ==
    (lastOp = "Mirror" /\ lastResult = "0" /\ ~lastDisplay /\ pc = "idle")
        => MirrorImage(mirrored, srcList)

\* the destination tree when every task of the plan but the failing ones
\* was applied
AllButFailed(tree, w, files, fails) ==
    MirrorRemove(MirrorCopy(tree, w.entries, files, 1, fails[1]), w.removes, fails[2])

\* C16: when one task of the plan fails, the failing file is skipped, every
\* other entry (the remaining copies and all removes) is applied and Mirror
\* returns failure; when Mirror does not return failure, every entry was
\* applied
C16_PerFileFailure ==
    [][(pc = "m_apply" /\ pc' = "idle") =>
        LET tree  == SeqToSet(dstList)
            files == SeqToSet(srcList)
        IN  IF lastResult' = "-1"
            THEN \E fails \in TaskFailures \ {<<{}, {}>>} :
                    /\ fails[1] \subseteq 1..Len(work[1].entries)
                    /\ fails[2] \subseteq 1..Len(work[1].removes)
                    /\ mirrored' = AllButFailed(tree, work[1], files, fails)
            ELSE mirrored' = AllButFailed(tree, work[1], files, <<{}, {}>>)]_vars

\* ---------------------------------------------------------------------
\* _GetFileInfo.CreateFileInfoWithHash: the hash of one file, block by
\* block, inline or through the queue between the reader and the worker
\* thread.  A content is a sequence of bytes; run holds the locals of the
\* call and the state of the worker.
\* ---------------------------------------------------------------------

MaxLen    == 6      \* bytes in a file
MaxBlock  == 2      \* hash_block_size
QueueSize == 2      \* capacity of block_queue (100 in the code)

Bytes == {0, 1}

Contents == UNION {[1..n -> Bytes] : n \in 0..MaxLen}

\* hashlib.sha256(): the state of a fresh hash object
ShaNew == 7

\* sha.update(block): the bytes of the block are consumed one after the other
RECURSIVE ShaUpdate(_, _)
ShaUpdate(sha, block) ==
    IF block = <<>> THEN sha
    ELSE ShaUpdate((sha * 31 + Head(block) + 1) % 251, Tail(block))

HexDigit(d) == <<"0", "1", "2", "3", "4", "5", "6", "7", "8", "9", "a", "b", "c", "d", "e", "f">>[d + 1]

\* sha.hexdigest()
HexDigest(sha) == <<HexDigit(sha \div 16), HexDigit(sha % 16)>>

Min(a, b) == IF a < b THEN a ELSE b

\* f.read(hash_block_size) at position pos: at most n bytes, empty at the end
ReadBlock(content, pos, n) == SubSeq(content, pos + 1, Min(pos + n, Len(content)))

\* block_queue.join() returns: every block put was reported task_done
JoinedWhenEmpty(r) == r.queue = <<>>

Joined(r) == r.unfinished = 0

NoHash == <<>>

\* CreateFileInfoWithHash(filename) is called; the rotational version sends
\* files larger than 5 blocks through the queue
HashBegin ==
    /\ pc = "idle"
    /\ \E content \in Contents, hash_block_size \in 1..MaxBlock, is_ssd \in BOOLEAN :
        /\ run' = [op |-> "GetFileInfo", content |-> content, block |-> hash_block_size,
                   is_ssd |-> is_ssd, pos |-> 0, sha |-> ShaNew, queue |-> <<>>,
                   unfinished |-> 0, taken |-> <<>>, hash |-> NoHash]
        /\ pc' = IF is_ssd \/ Len(content) <= hash_block_size * 5
                 THEN "h_inline" ELSE "h_queue"
    /\ Forget
    /\ UNCHANGED <<planVars, source, live, pending, suffixCopy, outDir, chain,
                   restored, mirrored, nRuns>>

\* one turn of the inline loop: read a block, update or stop
HashInline ==
    /\ pc = "h_inline"
    /\ LET block == ReadBlock(run.content, run.pos, run.block)
       IN  IF block = <<>>
           THEN /\ run' = [run EXCEPT !.hash = HexDigest(run.sha)]
                /\ pc' = "h_done"
           ELSE /\ run' = [run EXCEPT !.sha = ShaUpdate(@, block), !.pos = @ + Len(block)]
                /\ pc' = pc
    /\ UNCHANGED <<planVars, source, live, pending, suffixCopy, outDir, chain,
                   lastResult, lastOp, lastDisplay, restored, mirrored, nRuns>>

\* one turn of the reader loop: read a block, put it (waiting while the
\* queue is full) or leave the loop
HashPut ==
    /\ pc = "h_queue"
    /\ LET block == ReadBlock(run.content, run.pos, run.block)
       IN  IF block = <<>>
           THEN /\ run' = run
                /\ pc' = "h_join"
           ELSE /\ Len(run.queue) < QueueSize
                /\ run' = [run EXCEPT !.queue = Append(@, block), !.unfinished = @ + 1,
                                      !.pos = @ + Len(block)]
                /\ pc' = pc
    /\ UNCHANGED <<planVars, source, live, pending, suffixCopy, outDir, chain,
                   lastResult, lastOp, lastDisplay, restored, mirrored, nRuns>>

\* WorkerProc: block = block_queue.get(True, 0.25)
WorkerGet ==
    /\ pc \in {"h_queue", "h_join"}
    /\ run.taken = <<>>
    /\ run.queue # <<>>
    /\ run' = [run EXCEPT !.taken = <<Head(run.queue)>>, !.queue = Tail(@)]
    /\ UNCHANGED <<planVars, source, live, pending, suffixCopy, outDir, chain, pc,
                   lastResult, lastOp, lastDisplay, restored, mirrored, nRuns>>

\* WorkerProc: nonlocals.sha.update(block); block_queue.task_done()
WorkerUpdate ==
    /\ pc \in {"h_queue", "h_join"}
    /\ run.taken # <<>>
    /\ run' = [run EXCEPT !.sha = ShaUpdate(@, run.taken[1]), !.taken = <<>>,
                          !.unfinished = @ - 1]
    /\ UNCHANGED <<planVars, source, live, pending, suffixCopy, outDir, chain, pc,
                   lastResult, lastOp, lastDisplay, restored, mirrored, nRuns>>

\* block_queue.join(); info.Hash = nonlocals.sha.hexdigest()
HashJoin ==
    /\ pc = "h_join"
    /\ Joined(run)
    /\ run' = [run EXCEPT !.hash = HexDigest(run.sha)]
    /\ pc' = "h_done"
    /\ UNCHANGED <<planVars, source, live, pending, suffixCopy, outDir, chain,
                   lastResult, lastOp, lastDisplay, restored, mirrored, nRuns>>

\* return info
HashReturn ==
    /\ pc = "h_done"
    /\ Return("GetFileInfo", "0")
    /\ UNCHANGED <<planVars, source, live, pending, suffixCopy, outDir, chain,
                   restored, mirrored, nRuns>>

InitHash ==
    /\ plat = "posix"
    /\ destDir = NoDir
    /\ srcList = <<>>
    /\ dstList = <<>>
    /\ simple = FALSE
    /\ work = <<>>
    /\ StoreIdle

NextHash ==
    \/ HashBegin
    \/ HashInline
    \/ HashPut
    \/ WorkerGet
    \/ WorkerUpdate
    \/ HashJoin
    \/ HashReturn

SpecHash == InitHash /\ [][NextHash]_vars

\* ---------------------------------------------------------------------
\* Properties of the hash
\* ---------------------------------------------------------------------

\* C17: whatever the block size and whether the file is hashed inline or
\* through the queue, the digest recorded for a file is the digest of its
\* whole content
C17_HashStability ==
    pc = "h_done" => run.hash = HexDigest(ShaUpdate(ShaNew, run.content))

\* a file of six one-byte blocks was hashed through the queue
C17_Witness ==
    /\ pc = "h_done"
    /\ ~run.is_ssd
    /\ run.block = 1
    /\ Len(run.content) = 6
    /\ run.hash = HexDigest(ShaUpdate(ShaNew, run.content))

\* ---------------------------------------------------------------------
\* Properties of the order of the writes of Offsite
\* ---------------------------------------------------------------------

\* every blob the running Offsite has to copy is in its output_dir
OwnBlobsPresent ==
    \A k \in 1..Len(run.to_copy) : run.to_copy[k].hash \in chain[run.out].blobs

\* C18: in every Offsite run the blobs of the snapshot are written before
\* data.json: at no moment does output_dir hold the data.json of the run
\* while one of the blobs the run has to copy is not there yet
C18_BlobsBeforeData ==
    (run.op = "Offsite" /\ pc \in {"o_data", "o_copy", "o_zip", "o_pend_open", "o_pend_dump"}
        /\ chain[run.out].hasData)
        => OwnBlobsPresent

\* the snapshot of the running Offsite is complete: data.json written, every
\* blob of to_copy copied without a failure, and the directory archived when
\* that was asked for
SnapshotComplete ==
    LET d == chain[run.out]
    IN  /\ run.out <= Len(chain)
        /\ ~run.failed
        /\ \A k \in 1..Len(run.to_copy) : run.to_copy[k].hash \in d.blobs
        /\ d.data = run.data
        /\ IF run.compress THEN d.zipped /\ ~d.hasData ELSE d.hasData /\ ~d.zipped

\* C19: Offsite touches the pending file only once data.json, every blob
\* copy and the archive step have succeeded; a run that ends in one of those
\* steps leaves the pending file as it was; with auto_commit the commit
\* starts only when the pending file holds the fingerprints of the run
C19_PendingAfterSnapshot ==
    [][/\ (run.op = "Offsite" /\ pc \notin {"c_remove", "c_move"} /\ pending' # pending)
            => SnapshotComplete
       /\ (pc \in {"o_clean", "o_data", "o_copy", "o_zip"}) => pending' = pending
       /\ (run.op = "Offsite" /\ pc # "c_check" /\ pc' = "c_check")
            => (SnapshotComplete /\ pending' = Manifest(run.sfis))]_vars

\* an Offsite run with compress has returned success: the pending file holds
\* the fingerprints and the output_dir the archive with a blob
C19_Witness ==
    /\ pc = "idle"
    /\ lastOp = "Offsite"
    /\ lastResult = "0"
    /\ pending.st = "ok"
    /\ pending.items # <<>>
    /\ outDir > 0
    /\ chain[outDir].zipped
    /\ chain[outDir].blobs # {}

\* ---------------------------------------------------------------------
\* Properties of the order of the plan
\* ---------------------------------------------------------------------

\* the names are in ascending order, as strings
AscendingNames(names) ==
    \A i \in 1..Len(names) - 1 : StrLess(names[i], names[i + 1])

\* C20: whatever the order in which the scanner delivered the files, the
\* plan lists the adds and modifies in ascending order of their source path,
\* and after them the removes in ascending order of their destination path
C20_PlanOrdering ==
    (PlanDone /\ ~PlanResult.failed) =>
        /\ AscendingNames([i \in 1..Len(PlanResult.entries) |-> PlanResult.entries[i].sfi.Name])
        /\ AscendingNames(NameSeq(PlanResult.removes))

\* ---------------------------------------------------------------------
\* _GetFileInfo: from the inputs to the list of files.  The tree holds the
\* directory /r with the files x and y and the directory b with the file
\* x; run holds the locals of the call.
\* ---------------------------------------------------------------------

MaxInputs == 2      \* inputs given to one call

ScanDirR == <<"/", "r">>
ScanDirB == <<"/", "r", "/", "b">>

\* FileSystem.WalkFiles(input_dir): the files of a directory, then those of
\* its subdirectories
WalkFiles(input_dir) ==
    IF input_dir = ScanDirR THEN SrcNames("posix")
    ELSE IF input_dir = ScanDirB THEN <<SrcNames("posix")[3]>>
    ELSE <<>>

isdir(i) == i \in {ScanDirR, ScanDirB}

isfile(i) == \E k \in 1..Len(SrcNames("posix")) : SrcNames("posix")[k] = i

\* what can be given as an input: a directory, a file, a path that does
\* not exist
InputPaths ==
    {ScanDirR, ScanDirB, SrcNames("posix")[1], SrcNames("posix")[3], <<"/", "q">>}

InputLists == UNION {[1..n -> InputPaths] : n \in 1..MaxInputs}

\* the values of exclude: nothing, or the name of a directory
Excludes == {<<>>, <<"b">>, <<"r">>}

\* re.match("^.*<sep><expr><sep>.*$", input_file)
MatchesDir(expr, input_file) ==
    \E k \in 1..Len(input_file) :
        StartsWith(DropN(input_file, k - 1), <<"/">> \o expr \o <<"/">>)

RECURSIVE FilesOfInputs(_)
FilesOfInputs(inputs) ==
    IF inputs = <<>> THEN <<>>
    ELSE (IF isfile(Head(inputs)) THEN <<Head(inputs)>> ELSE <<>>) \o FilesOfInputs(Tail(inputs))

RECURSIVE DirsOfInputs(_)
DirsOfInputs(inputs) ==
    IF inputs = <<>> THEN <<>>
    ELSE (IF isdir(Head(inputs)) THEN <<Head(inputs)>> ELSE <<>>) \o DirsOfInputs(Tail(inputs))

RECURSIVE Kept(_, _)
Kept(input_files, exclude) ==
    IF input_files = <<>> THEN <<>>
    ELSE (IF exclude # <<>> /\ MatchesDir(exclude, Head(input_files)) THEN <<>>
          ELSE <<Head(input_files)>>) \o Kept(Tail(input_files), exclude)

RECURSIVE InfoOf(_)
InfoOf(input_files) ==
    IF input_files = <<>> THEN <<>>
    ELSE <<FileInfo(Head(input_files), 1, 100, "h1")>> \o InfoOf(Tail(input_files))

\* _GetFileInfo is called; the loop over the inputs sorts them into files
\* and directories and raises on anything else
ScanBegin ==
    /\ pc = "idle"
    /\ \E inputs \in InputLists, exclude \in Excludes :
        IF \E k \in 1..Len(inputs) : ~isfile(inputs[k]) /\ ~isdir(inputs[k])
        THEN /\ Return("GetFileInfo", "raised")
             /\ srcList' = <<>>
        ELSE /\ run' = [op |-> "GetFileInfo", inputs |-> inputs, exclude |-> exclude,
                        input_files |-> FilesOfInputs(inputs),
                        input_dirs |-> DirsOfInputs(inputs)]
             /\ pc' = "s_dirs"
             /\ Forget
             /\ srcList' = <<>>
    /\ pending' = Absent
    /\ UNCHANGED <<plat, destDir, dstList, simple, work, source, live, suffixCopy,
                   outDir, chain, restored, mirrored, nRuns>>

\* one turn of the loop over input_dirs: input_files += WalkFiles(input_dir)
ScanWalk ==
    /\ pc = "s_dirs"
    /\ IF run.input_dirs = <<>> THEN run' = run /\ pc' = "s_filter"
       ELSE /\ run' = [run EXCEPT !.input_files = @ \o WalkFiles(Head(run.input_dirs)),
                                  !.input_dirs = Tail(@)]
            /\ pc' = pc
    /\ UNCHANGED <<planVars, source, live, pending, suffixCopy, outDir, chain,
                   lastResult, lastOp, lastDisplay, restored, mirrored, nRuns>>

\* the filter of includes and excludes, then one _FileInfo per file left
ScanInfo ==
    /\ pc = "s_filter"
    /\ srcList' = InfoOf(Kept(run.input_files, run.exclude))
    /\ Return("GetFileInfo", "0")
    /\ UNCHANGED <<plat, destDir, dstList, simple, work, source, live, pending,
                   suffixCopy, outDir, chain, restored, mirrored, nRuns>>

\* Offsite dumps the scanned list into the pending file
ScanDump ==
    /\ pc = "idle"
    /\ lastOp = "GetFileInfo"
    /\ lastResult = "0"
    /\ pending = Absent
    /\ pending' = Manifest(srcList)
    /\ UNCHANGED <<planVars, source, live, suffixCopy, outDir, chain, pc, run,
                   lastResult, lastOp, lastDisplay, restored, mirrored, nRuns>>

InitScan ==
    /\ plat = "posix"
    /\ destDir = NoDir
    /\ srcList = <<>>
    /\ dstList = <<>>
    /\ simple = FALSE
    /\ work = <<>>
    /\ StoreIdle

NextScan == ScanBegin \/ ScanWalk \/ ScanInfo \/ ScanDump

SpecScan == InitScan /\ [][NextScan]_vars

\* ---------------------------------------------------------------------
\* Properties of the scanner
\* ---------------------------------------------------------------------

\* no path occurs twice in the list
UniqueNames(infos) ==
    \A i, j \in 1..Len(infos) : infos[i].Name = infos[j].Name => i = j

\* C21: whatever the inputs, a file given twice or given together with a
\* directory that contains it included, the list of files the scanner
\* returns and the fingerprint set written to the pending manifest hold
\* each path at most once
C21_ScannerDedup ==
    /\ (pc = "idle" /\ lastOp = "GetFileInfo") => UniqueNames(srcList)
    /\ UniqueNames(pending.items)

\* ---------------------------------------------------------------------
\* Offsite from the scanned list to data.json, on lists in any order and
\* with paths occurring more than once
\* ---------------------------------------------------------------------

\* (size, mtime, hash) of the records of the manifest: as scanned, or of
\* another size
ManifestStamps == { <<1, 100, "h1">>, <<2, 100, "h1">> }

\* the scanner delivers one more file: any file, one it delivered before
\* included
AddSourceAny ==
    /\ work = <<>>
    /\ Len(srcList) < MaxSrc
    /\ \E k \in 1..Len(SrcNames(plat)), st \in SrcStamps :
        srcList' = Append(srcList, FileInfo(SrcNames(plat)[k], st[1], st[2], st[3]))
    /\ UNCHANGED <<plat, destDir, dstList, simple, work, storeVars>>

\* one more record of the historical manifest, whatever the records before
AddDestAny ==
    /\ work = <<>>
    /\ Len(dstList) < MaxDst
    /\ \E k \in 1..Len(DstNames(plat, NoDir)), st \in ManifestStamps :
        dstList' = Append(dstList, FileInfo(DstNames(plat, NoDir)[k], st[1], st[2], st[3]))
    /\ UNCHANGED <<plat, destDir, srcList, simple, work, storeVars>>

\* Offsite from the plan to data.json
OffsiteData ==
    /\ work = <<>>
    /\ pc = "idle"
    /\ LET w    == CreateWork(plat, srcList, dstList, NoDir, FALSE)
           data == DataOfEntries(w.entries) \o DataOfRemoves(w.removes)
       IN  /\ work' = <<w>>
           /\ chain' = <<[EmptyDir EXCEPT !.hasData = TRUE, !.data = data]>>
           /\ outDir' = 1
    /\ Return("Offsite", "0")
    /\ UNCHANGED <<plat, destDir, srcList, dstList, simple, source, live, pending,
                   suffixCopy, restored, mirrored, nRuns>>

InitData ==
    /\ plat = "nt"
    /\ destDir = NoDir
    /\ srcList = <<>>
    /\ dstList = <<>>
    /\ simple = FALSE
    /\ work = <<>>
    /\ StoreIdle

NextData == AddSourceAny \/ AddDestAny \/ OffsiteData

SpecData == InitData /\ [][NextData]_vars

\* ---------------------------------------------------------------------
\* Properties of data.json
\* ---------------------------------------------------------------------

\* C22: in the data.json of every snapshot directory no filename is in
\* more than one entry: the filenames of the add and modify entries are
\* pairwise distinct and none of them is the filename of a remove entry
C22_ManifestUniqueness ==
    \A d \in 1..Len(chain) :
        \A i, j \in 1..Len(chain[d].data) :
            chain[d].data[i].filename = chain[d].data[j].filename => i = j

\* data.json was written from a scan that holds a path twice and a
\* manifest that holds a path twice: one entry for the one, a remove for
\* the other
C22_Witness ==
    /\ work # <<>>
    /\ Len(srcList) = 2
    /\ srcList[1].Name = srcList[2].Name
    /\ Len(dstList) = 2
    /\ dstList[1].Name = dstList[2].Name
    /\ Len(chain[1].data) = 2
    /\ chain[1].data[2].operation = "remove"

\* ---------------------------------------------------------------------
\* OffsiteRestore with dir_substitution, on chains written record by record
\* ---------------------------------------------------------------------

\* the mappings given as dir_substitution: none; one key that is a prefix
\* of every file; one key that is a prefix of no file; a key mapped to
\* itself; two keys
SubstMaps ==
    { <<>>,
      <<[k |-> <<"C", ":", "\\", "r">>, v |-> <<"C", ":", "\\", "q">>]>>,
      <<[k |-> <<"D", ":", "\\", "r">>, v |-> <<"D", ":", "\\", "q">>]>>,
      <<[k |-> <<"C", ":", "\\", "r">>, v |-> <<"C", ":", "\\", "r">>]>>,
      <<[k |-> <<"C", ":", "\\", "r">>, v |-> <<"C", ":", "\\", "q">>],
        [k |-> <<"D", ":", "\\", "r">>, v |-> <<"D", ":", "\\", "q">>]>> }

OffsiteRestoreSubst == OffsiteRestoreWith(SubstMaps, {0})

NextSubst == AddDir \/ AddEntry \/ OffsiteRestoreSubst

SpecSubst == Init /\ [][NextSubst]_vars

\* ---------------------------------------------------------------------
\* Properties of dir_substitution
\* ---------------------------------------------------------------------

\* the name with its prefix k rewritten to v, for the first key that is a
\* prefix of it; the name itself when there is none
RECURSIVE Rewritten(_, _)
Rewritten(filename, subs) ==
    IF subs = <<>> THEN filename
    ELSE IF StartsWith(filename, Head(subs).k)
    THEN Head(subs).v \o DropN(filename, Len(Head(subs).k))
    ELSE Rewritten(filename, Tail(subs))

\* C23: given a mapping, OffsiteRestore materializes every surviving
\* filename once, under the name with its prefix rewritten, or under its own
\* name when no key is a prefix of it; as many files are restored as
\* filenames survive, for one or several keys and when a key is mapped to
\* itself
C23_DirSubstitution ==
    (lastOp = "OffsiteRestore" /\ ~lastDisplay /\ pc = "idle") =>
        LET order == NameOrder
            flat  == FlatFrom(order, 1)
        IN  WellFormed(order, flat) =>
                /\ lastResult = "0"
                /\ Cardinality(restored) = Cardinality(FoldOf(flat))
                /\ \E subs \in SubstMaps :
                        restored = {[filename |-> Rewritten(f.filename, subs), hash |-> f.hash] :
                                        f \in FoldOf(flat)}

\* ---------------------------------------------------------------------
\* The rotational pipeline over a list of files: the pool thread reads one
\* file after the other (num_concurrent_tasks = 1) and puts its blocks into
\* block_queue, WorkerProc applies them to nonlocals.sha, Cleanup stops the
\* worker.  A block is <<file, number>>; a hash object is the file it was
\* created for and the blocks applied to it so far.  run holds the locals
\* of _GetFileInfo and the position of the worker (wpc).
\* ---------------------------------------------------------------------

MaxFiles   == 2     \* files sent through the queue in one call
FileBlocks == 2     \* blocks of each of them

\* the blocks of a file, in read order
RECURSIVE BlocksFrom(_, _)
BlocksFrom(file, k) ==
    IF k > FileBlocks THEN <<>> ELSE << <<file, k>> >> \o BlocksFrom(file, k + 1)

BlocksOf(file) == BlocksFrom(file, 1)

\* the worker thread is started; TaskPool.Transform begins
PipeBegin ==
    /\ pc = "idle"
    /\ \E n \in 1..MaxFiles :
        run' = [op |-> "GetFileInfo", files |-> n, cur |-> 0, pos |-> 0,
                queue |-> <<>>, unfinished |-> 0, taken |-> <<>>,
                sha |-> [file |-> 0, applied |-> <<>>],
                digests |-> [i \in 1..n |-> NoHash], failed |-> {},
                quit |-> FALSE, wpc |-> "check"]
    /\ pc' = "p_next"
    /\ Forget
    /\ UNCHANGED <<planVars, source, live, pending, suffixCopy, outDir, chain,
                   restored, mirrored, nRuns>>

\* the pool takes the next file: nonlocals.sha = hashlib.sha256(); after the
\* last file Transform is over
PipeNext ==
    /\ pc = "p_next"
    /\ IF run.cur = run.files THEN run' = run /\ pc' = "p_quit"
       ELSE /\ run' = [run EXCEPT !.cur = @ + 1, !.pos = 0,
                                  !.sha = [file |-> run.cur + 1, applied |-> <<>>]]
            /\ pc' = "p_read"
    /\ UNCHANGED <<planVars, source, live, pending, suffixCopy, outDir, chain,
                   lastResult, lastOp, lastDisplay, restored, mirrored, nRuns>>

\* one turn of the reader loop: block_queue.put(block), waiting while the
\* queue is full, or the end of the file
PipeRead ==
    /\ pc = "p_read"
    /\ IF run.pos = FileBlocks THEN run' = run /\ pc' = "p_join"
       ELSE /\ Len(run.queue) < QueueSize
            /\ run' = [run EXCEPT !.queue = Append(@, <<run.cur, run.pos + 1>>),
                                  !.unfinished = @ + 1, !.pos = @ + 1]
            /\ pc' = pc
    /\ UNCHANGED <<planVars, source, live, pending, suffixCopy, outDir, chain,
                   lastResult, lastOp, lastDisplay, restored, mirrored, nRuns>>

\* f.read raises: the exception leaves CreateFileInfoWithHash, the task has
\* failed and the pool goes on
PipeReadFails ==
    /\ pc = "p_read"
    /\ run.pos < FileBlocks
    /\ run' = [run EXCEPT !.failed = @ \cup {run.cur}]
    /\ pc' = "p_next"
    /\ UNCHANGED <<planVars, source, live, pending, suffixCopy, outDir, chain,
                   lastResult, lastOp, lastDisplay, restored, mirrored, nRuns>>

\* block_queue.join() returns; info.Hash = nonlocals.sha.hexdigest()
PipeJoin ==
    /\ pc = "p_join"
    /\ run.unfinished = 0
    /\ run' = [run EXCEPT !.digests[run.cur] = run.sha.applied]
    /\ pc' = "p_next"
    /\ UNCHANGED <<planVars, source, live, pending, suffixCopy, outDir, chain,
                   lastResult, lastOp, lastDisplay, restored, mirrored, nRuns>>

\* WorkerProc at the top of its loop: if quit_event.is_set(): break
WorkerCheck ==
    /\ pc \in {"p_next", "p_read", "p_join", "p_quit", "p_joinw"}
    /\ run.wpc = "check"
    /\ run' = [run EXCEPT !.wpc = IF run.quit THEN "exited" ELSE "get"]
    /\ UNCHANGED <<planVars, source, live, pending, suffixCopy, outDir, chain, pc,
                   lastResult, lastOp, lastDisplay, restored, mirrored, nRuns>>

\* WorkerProc in block_queue.get(True, 0.25): a block, or Empty after the
\* timeout
WorkerPoll ==
    /\ pc \in {"p_next", "p_read", "p_join", "p_quit", "p_joinw"}
    /\ run.wpc = "get"
    /\ run' = IF run.queue = <<>> THEN [run EXCEPT !.wpc = "check"]
              ELSE [run EXCEPT !.taken = <<Head(run.queue)>>, !.queue = Tail(@),
                               !.wpc = "update"]
    /\ UNCHANGED <<planVars, source, live, pending, suffixCopy, outDir, chain, pc,
                   lastResult, lastOp, lastDisplay, restored, mirrored, nRuns>>

\* WorkerProc: nonlocals.sha.update(block); block_queue.task_done()
WorkerApply ==
    /\ pc \in {"p_next", "p_read", "p_join", "p_quit", "p_joinw"}
    /\ run.wpc = "update"
    /\ run' = [run EXCEPT !.sha.applied = Append(@, run.taken[1]), !.taken = <<>>,
                          !.unfinished = @ - 1, !.wpc = "check"]
    /\ UNCHANGED <<planVars, source, live, pending, suffixCopy, outDir, chain, pc,
                   lastResult, lastOp, lastDisplay, restored, mirrored, nRuns>>

\* Cleanup: quit_event.set()
PipeQuit ==
    /\ pc = "p_quit"
    /\ run' = [run EXCEPT !.quit = TRUE]
    /\ pc' = "p_joinw"
    /\ UNCHANGED <<planVars, source, live, pending, suffixCopy, outDir, chain,
                   lastResult, lastOp, lastDisplay, restored, mirrored, nRuns>>

\* Cleanup: worker_thread.join() returns
PipeJoinWorker ==
    /\ pc = "p_joinw"
    /\ run.wpc = "exited"
    /\ run' = run
    /\ pc' = "p_done"
    /\ UNCHANGED <<planVars, source, live, pending, suffixCopy, outDir, chain,
                   lastResult, lastOp, lastDisplay, restored, mirrored, nRuns>>

\* _GetFileInfo returns, or raises when a task failed
PipeReturn ==
    /\ pc = "p_done"
    /\ Return("GetFileInfo", IF run.failed = {} THEN "0" ELSE "raised")
    /\ UNCHANGED <<planVars, source, live, pending, suffixCopy, outDir, chain,
                   restored, mirrored, nRuns>>

NextPipe ==
    \/ PipeBegin \/ PipeNext \/ PipeRead \/ PipeReadFails \/ PipeJoin
    \/ WorkerCheck \/ WorkerPoll \/ WorkerApply
    \/ PipeQuit \/ PipeJoinWorker \/ PipeReturn

SpecPipe == InitHash /\ [][NextPipe]_vars

\* ---------------------------------------------------------------------
\* Properties of the rotational pipeline
\* ---------------------------------------------------------------------

\* C24: once the quit signal is set the worker exits at its next poll and
\* the join of Cleanup returns; after the shutdown the pipeline is at
\* rest: no block is left in the queue and no reader is blocked on the
\* queue
C24_ShutdownQuiescent ==
    /\ (pc = "p_joinw" /\ run.wpc = "exited") => (run.queue = <<>> /\ run.unfinished = 0)
    /\ pc = "p_done" => (run.queue = <<>> /\ run.unfinished = 0 /\ run.wpc = "exited")

\* C28: over any sequence of files, one whose read fails midway included,
\* the digest recorded for a file is made of the blocks of that file, each
\* once and in read order, and no block read from one file is applied to
\* the hash object of another
C28_ReaderHasherIsolation ==
    pc \in {"p_next", "p_read", "p_join", "p_quit", "p_joinw", "p_done"} =>
        /\ \A i \in 1..run.files :
                run.digests[i] # NoHash => run.digests[i] = BlocksOf(i)
        /\ \A k \in 1..Len(run.sha.applied) : run.sha.applied[k][1] = run.sha.file


\* C25: planner totality in mirror mode.  For every source list, the empty
\* one included, and every list of files scanned under the destination
\* root, _CreateWork finishes without a failed assertion and the plan holds
\* Remove(d) for every destination file d that is the mapped path of no
\* source file.
C25_PlannerTotality ==
    (PlanDone /\ destDir # NoDir) =>
        /\ ~PlanResult.failed
        /\ \A d \in DstSet :
              (\A t \in SrcSet : PlanToDest(t.Name) # d.Name)
                  => d \in SeqToSet(PlanResult.removes)


(***************************************************************************)
(* What Offsite computes from the files it finds                           *)
(***************************************************************************)
\* the hashes of a to_copy list
HashesOf(tocopy) == {tocopy[i].hash : i \in 1..Len(tocopy)}

\* the plan with the manifest taken from the `.pending` file when there is
\* one
OffsiteOutcomePending(src, force, manifest, pend) ==
    LET w == CreateWork(plat, GetFileInfo(src),
                        LoadDestInfo(force, IF pend.st = "ok" THEN pend ELSE manifest),
                        NoDir, FALSE)
    IN  [plan  |-> w,
         data  |-> DataOfEntries(w.entries) \o DataOfRemoves(w.removes),
         blobs |-> HashesOf(ToCopy(w.entries,
                       LoadDestHashes(force, IF pend.st = "ok" THEN pend ELSE manifest)))]

\* the plan, the records of data.json and the blobs of an Offsite run over
\* the source tree src, with json_filename holding `manifest` and
\* json_filename + ".pending" holding `pend`: only json_filename is opened
OffsiteOutcome(src, force, manifest, pend) ==
    LET w == CreateWork(plat, GetFileInfo(src), LoadDestInfo(force, manifest), NoDir, FALSE)
    IN  [plan  |-> w,
         data  |-> DataOfEntries(w.entries) \o DataOfRemoves(w.removes),
         blobs |-> HashesOf(ToCopy(w.entries, LoadDestHashes(force, manifest)))]

\* the contents a `.pending` file may have
PendingFiles ==
    {Absent, Corrupt, pending} \cup {Manifest(GetFileInfo(t)) : t \in SourceTrees}

C27_NoStalePending ==
    (pc = "idle" /\ lastOp = "Offsite" /\ lastResult # "killed" /\ pending.st # "absent") =>
        pending = Manifest(GetFileInfo(source))


\* C29: display_only has no effect on storage.  A Mirror, Offsite or
\* OffsiteRestore run with display_only leaves the destination tree,
\* output_dir, the snapshot directories (archived ones included), the
\* `.pending` file and the live manifest as they were, and restores nothing.
C29_DisplayOnlyFrame ==
    [][lastDisplay' =>
            /\ chain' = chain
            /\ outDir' = outDir
            /\ pending' = pending
            /\ live' = live
            /\ suffixCopy' = suffixCopy
            /\ restored' = {}
            /\ (lastOp' = "Mirror" => mirrored' \in MirrorDests)]_vars


(***************************************************************************)
(* The copy tasks of Mirror, one at a time (num_concurrent_tasks = 1), in  *)
(* any order, on a destination tree (mirrored) given as a set of files     *)
(***************************************************************************)
\* "{}.copying".format(dest)
TempOf(dest) == dest \o <<".", "c", "o", "p", "y", "i", "n", "g">>

\* FileSystem.RemoveFile(name): nothing happens when there is no such file
RemoveFile(tree, name) == {f \in tree : f.Name # name}

\* shutil.copy2(source, name): bytes and mtime of the source under `name`
copy2(tree, sfi, name) == RemoveFile(tree, name) \cup {[sfi EXCEPT !.Name = name]}

\* shutil.move(from, to)
move(tree, from, to) ==
    RemoveFile(RemoveFile(tree, from), to)
        \cup {[f EXCEPT !.Name = to] : f \in {g \in tree : g.Name = from}}

\* Execute of one copy task
CopyExecute(tree, sfi, dest) ==
    LET t1 == RemoveFile(tree, TempOf(dest))
        t2 == copy2(t1, sfi, TempOf(dest))
        t3 == RemoveFile(t2, dest)
    IN  move(t3, TempOf(dest), dest)

\* the source files of the runs: x, x.copying and y of one directory
CopyFiles(p) ==
    { FileInfo(SrcNames(p)[1], 1, 100, "h1"),
      FileInfo(TempOf(SrcNames(p)[1]), 2, 100, "h2"),
      FileInfo(SrcNames(p)[2], 1, 100, "h1") }

\* the scans of the source: the lists of one to three of these files
CopySources(p) ==
    { <<a>> : a \in CopyFiles(p) }
    \cup { s \in [1..2 -> CopyFiles(p)] : s[1] # s[2] }
    \cup { s \in [1..3 -> CopyFiles(p)] : s[1] # s[2] /\ s[1] # s[3] /\ s[2] # s[3] }

\* the scans of the destination: nothing, an older x, the x.copying of an
\* earlier mirror, or both
CopyDests(p) ==
    LET x  == FileInfo(DstNames(p, DestRoot(p))[1], 3, 50, "h3")
        xc == FileInfo(TempOf(DstNames(p, DestRoot(p))[1]), 2, 100, "h2")
    IN  { <<>>, <<x>>, <<xc>>, <<x, xc>> }

InitCopy ==
    /\ plat \in Plats
    /\ destDir = DestRoot(plat)
    /\ srcList \in CopySources(plat)
    /\ dstList \in CopyDests(plat)
    /\ simple = FALSE
    /\ work = <<>>
    /\ StoreIdle

\* Mirror up to the list of copy tasks
CopyBegin ==
    /\ pc = "idle"
    /\ work = <<>>
    /\ LET w == MirrorPlan(plat, srcList, dstList, destDir, FALSE, FALSE)
       IN  /\ work' = <<w>>
           /\ IF w.failed THEN Return("Mirror", "raised")
              ELSE /\ pc' = "k_copy"
                   /\ run' = [NoRun EXCEPT !.left = 1..Len(w.entries), !.op = "Mirror"]
                   /\ Forget
    /\ mirrored' = SeqToSet(dstList)
    /\ UNCHANGED <<plat, destDir, srcList, dstList, simple, source, live, pending,
                   suffixCopy, outDir, chain, restored, nRuns>>

\* the pool runs one of the copy tasks
CopyTask ==
    /\ pc = "k_copy"
    /\ \E k \in run.left :
        /\ mirrored' = CopyExecute(mirrored, work[1].entries[k].sfi, work[1].entries[k].dest)
        /\ run' = [run EXCEPT !.left = @ \ {k}]
    /\ Goto("k_copy")
    /\ UNCHANGED <<planVars, source, live, pending, suffixCopy, outDir, chain,
                   restored, nRuns>>

\* every copy is done: the remove tasks, and Mirror returns
CopyDone ==
    /\ pc = "k_copy"
    /\ run.left = {}
    /\ mirrored' = MirrorRemove(mirrored, work[1].removes, {})
    /\ Return("Mirror", IF work[1].entries = <<>> /\ work[1].removes = <<>> THEN "1" ELSE "0")
    /\ UNCHANGED <<planVars, source, live, pending, suffixCopy, outDir, chain,
                   restored, nRuns>>

NextCopy == CopyBegin \/ CopyTask \/ CopyDone

SpecCopy == InitCopy /\ [][NextCopy]_vars

\* C30: Mirror temp-file isolation.  For every plan and every order of its
\* copy tasks, the path `<dest>.copying` of one task is the destination of
\* no other task, and every file a task has placed is still in the
\* destination, with the bytes of its source, while the other tasks run.
C30_TempIsolation ==
    pc = "k_copy" =>
        /\ \A i, j \in 1..Len(work[1].entries) :
                i # j => TempOf(work[1].entries[i].dest) # work[1].entries[j].dest
        /\ \A k \in (1..Len(work[1].entries)) \ run.left :
                \E f \in mirrored :
                    /\ f.Name = work[1].entries[k].dest
                    /\ f.Size = work[1].entries[k].sfi.Size
                    /\ f.Hash = work[1].entries[k].sfi.Hash

====
